---- MODULE Spec2Model ----
(***************************************************************************)
(* Model of the quiz question/answer extraction pipeline of                *)
(* download_moodle_quizzes.py: the option segmenter                        *)
(* (_split_concatenated_options, _merge_short_fragments), the question     *)
(* extractor (extract_questions) and the normaliser/deduplicator           *)
(* (_normalize, clean_questions), as download_quiz chains them, then       *)
(* download_quiz and main themselves: the order of the pages, the 'next'   *)
(* navigation and the outcomes of a call, and the download_quiz of         *)
(* quizzes.py and download_moodle_resources.py.                            *)
(*                                                                         *)
(* A Python str is a sequence of characters; a character is a one-letter   *)
(* TLA+ string, a non-ASCII character being written by its name            *)
(* ("a_grave" is U+00E0, "bullet" is U+2022, ...).                         *)
(***************************************************************************)
EXTENDS Integers, Sequences, FiniteSets, TLC

VARIABLES pc, s, parts, text, normalized, blocks, questions, cleaned,
          strategy, pending, fetched, site, current, visited,
          quiz, quiz_links, returned, saved, failed

\* the state of the download of the attempts (download_quiz, main)
crawl == <<strategy, pending, fetched, site, current, visited,
           quiz, quiz_links, returned, saved, failed>>

vars == <<pc, s, parts, text, normalized, blocks, questions, cleaned, crawl>>

(***************************************************************************)
(* Characters and the str methods the code uses                            *)
(***************************************************************************)

\* str.strip() and the regex class \s
Space == {" ", "\n", "\r", "\t"}

\* the regex class \d
Digit == {"0", "1", "2", "3", "4", "5", "6", "7", "8", "9"}

UpperAlpha == <<"A","B","C","D","E","F","G","H","I","J","K","L","M","N","O","P","Q","R","S","T","U","V","W","X","Y","Z","E_acute","A_grave">>

LowerAlpha == <<"a","b","c","d","e","f","g","h","i","j","k","l","m","n","o","p","q","r","s","t","u","v","w","x","y","z","e_acute","a_grave">>

Upper == {UpperAlpha[i] : i \in 1..Len(UpperAlpha)}

Lower == {LowerAlpha[i] : i \in 1..Len(LowerAlpha)}

\* the regex class \w: letters, digits and the underscore
Word == Upper \cup Lower \cup Digit \cup {"_"}

\* str.lower() on one character
LowerChar(c) ==
    IF c \in Upper
    THEN LowerAlpha[CHOOSE i \in 1..Len(UpperAlpha) : UpperAlpha[i] = c]
    ELSE c

\* str.lower()
lower(x) == [i \in 1..Len(x) |-> LowerChar(x[i])]

\* str.isupper(): at least one cased character and no lowercase one
isupper(x) ==
    /\ \E i \in 1..Len(x) : x[i] \in Upper
    /\ \A i \in 1..Len(x) : x[i] \notin Lower

RECURSIVE lstrip(_)
lstrip(x) == IF x # <<>> /\ Head(x) \in Space THEN lstrip(Tail(x)) ELSE x

RECURSIVE rstrip(_)
rstrip(x) ==
    IF x # <<>> /\ x[Len(x)] \in Space THEN rstrip(SubSeq(x, 1, Len(x) - 1)) ELSE x

\* str.strip()
strip(x) == rstrip(lstrip(x))

\* x[i:] of Python for a 1-based position i
From(x, i) == SubSeq(x, i, Len(x))

\* number of leading characters of x[i:] that lie in class
RECURSIVE Run(_, _, _)
Run(x, i, class) ==
    IF i <= Len(x) /\ x[i] \in class THEN 1 + Run(x, i + 1, class) ELSE 0

\* does the literal w occur in x at position i (case-insensitively when ci)
At(x, i, w, ci) ==
    /\ i + Len(w) - 1 <= Len(x)
    /\ \A k \in 1..Len(w) :
          IF ci THEN LowerChar(x[i + k - 1]) = LowerChar(w[k]) ELSE x[i + k - 1] = w[k]

\* [p.strip() for p in parts if p.strip()]
RECURSIVE StripNonEmpty(_)
StripNonEmpty(ps) ==
    IF ps = <<>> THEN <<>>
    ELSE IF strip(Head(ps)) = <<>> THEN StripNonEmpty(Tail(ps))
    ELSE <<strip(Head(ps))>> \o StripNonEmpty(Tail(ps))

\* membership in a Python list
In(x, list) == \E i \in 1..Len(list) : list[i] = x

(***************************************************************************)
(* The regular expressions of the segmenter                                *)
(***************************************************************************)

\* length of the match of r'\r\n|\n{1,}|\r' at position i, 0 when none
LineBreakAt(x, i) ==
    IF At(x, i, <<"\r", "\n">>, FALSE) THEN 2
    ELSE IF x[i] = "\n" THEN Run(x, i, {"\n"})
    ELSE IF x[i] = "\r" THEN 1
    ELSE 0

\* length of the match of r'\s{2,}|;|\||•|–|—|--' at position i, 0 when none
DelimiterAt(x, i) ==
    IF Run(x, i, Space) >= 2 THEN Run(x, i, Space)
    ELSE IF x[i] \in {";", "|", "bullet", "endash", "emdash"} THEN 1
    ELSE IF At(x, i, <<"-", "-">>, FALSE) THEN 2
    ELSE 0

\* length of the match of r'\s*\d+\)\s*' at position i, 0 when none
NumberedAt(x, i) ==
    LET w == Run(x, i, Space)
        d == Run(x, i + w, Digit)
    IN  IF d >= 1 /\ i + w + d <= Len(x) /\ x[i + w + d] = ")"
        THEN w + d + 1 + Run(x, i + w + d + 1, Space)
        ELSE 0

MatchAt(rule, x, i) ==
    CASE rule = "linebreak" -> LineBreakAt(x, i)
      [] rule = "delimiter" -> DelimiterAt(x, i)
      [] rule = "numbered"  -> NumberedAt(x, i)

\* re.split(rule, x): the pieces between the leftmost non-overlapping matches
RECURSIVE ReSplit(_, _, _, _)
ReSplit(rule, x, i, cur) ==
    IF i > Len(x) THEN <<cur>>
    ELSE LET n == MatchAt(rule, x, i)
         IN  IF n > 0 THEN <<cur>> \o ReSplit(rule, x, i + n, <<>>)
             ELSE ReSplit(rule, x, i + 1, Append(cur, x[i]))

re_split(rule, x) == ReSplit(rule, x, 1, <<>>)

(***************************************************************************)
(* _merge_short_fragments                                                  *)
(***************************************************************************)

\* the artifact set of line 88
MergeJunk ==
    { <<"e","n","d">>,
      <<"r","e","t","i","r","e","r"," ","l","a"," ","m","a","r","q","u","e">>,
      <<"e","f","f","a","c","e","r"," ","m","o","n"," ","c","h","o","i","x">>,
      <<"r","e","m","o","v","e"," ","c","h","o","i","c","e">>,
      <<"c","l","e","a","r"," ","s","e","l","e","c","t","i","o","n">>,
      <<"m","a","r","q","u","e","r"," ","l","a"," ","q","u","e","s","t","i","o","n">> }

\* a test that takes only single characters for short fragments
IsShortFragmentOneChar(cur) == Len(cur) <= 1 /\ ~isupper(cur)

\* a repair that takes no part for a short fragment
IsShortFragmentNever(cur) == FALSE

\* line 92: very short and not an acronym
IsShortFragment(cur) == Len(cur) <= 2 /\ ~(isupper(cur) /\ Len(cur) <= 3)

\* re.fullmatch(r'[\W_]+', cur)
IsPunctuation(cur) ==
    cur # <<>> /\ \A i \in 1..Len(cur) : cur[i] \notin (Word \ {"_"})

\* the while loop of lines 85-109; ps is the (mutated) parts list, i is 1-based
RECURSIVE MergeLoop(_, _, _)
MergeLoop(ps, i, acc) ==
    IF i > Len(ps) THEN acc
    ELSE LET cur == strip(ps[i])
         IN  IF lower(cur) \in MergeJunk THEN MergeLoop(ps, i + 1, acc)
             ELSE IF IsShortFragment(cur)
             THEN IF acc # <<>>
                  THEN MergeLoop(ps, i + 1,
                         [acc EXCEPT ![Len(acc)] = strip(acc[Len(acc)] \o <<" ">> \o cur)])
                  ELSE IF i + 1 <= Len(ps)
                  THEN MergeLoop([ps EXCEPT ![i + 1] = strip(cur \o <<" ">> \o ps[i + 1])],
                                 i + 1, acc)
                  ELSE MergeLoop(ps, i + 1, Append(acc, cur))
             ELSE IF IsPunctuation(cur) THEN MergeLoop(ps, i + 1, acc)
             ELSE MergeLoop(ps, i + 1, Append(acc, cur))

\* a final pass that drops the short elements only
RECURSIVE FinalPassLengthOnly(_, _)
FinalPassLengthOnly(xs, out) ==
    IF xs = <<>> THEN out
    ELSE IF Len(strip(Head(xs))) = 0
              \/ (Len(strip(Head(xs))) <= 1 /\ ~isupper(Head(xs)))
    THEN FinalPassLengthOnly(Tail(xs), out)
    ELSE FinalPassLengthOnly(Tail(xs), Append(out, Head(xs)))

\* a final pass that removes the repeats only
RECURSIVE FinalPassRepeatsOnly(_, _)
FinalPassRepeatsOnly(xs, out) ==
    IF xs = <<>> THEN out
    ELSE IF Len(strip(Head(xs))) = 0 \/ In(Head(xs), out)
    THEN FinalPassRepeatsOnly(Tail(xs), out)
    ELSE FinalPassRepeatsOnly(Tail(xs), Append(out, Head(xs)))

\* the final pass of lines 111-122
RECURSIVE FinalPass(_, _)
FinalPass(xs, out) ==
    IF xs = <<>> THEN out
    ELSE LET x == Head(xs)
         IN  IF Len(strip(x)) = 0 THEN FinalPass(Tail(xs), out)
             ELSE IF Len(strip(x)) <= 1 /\ ~(isupper(x) /\ Len(strip(x)) <= 3)
             THEN FinalPass(Tail(xs), out)
             ELSE IF ~In(x, out) THEN FinalPass(Tail(xs), Append(out, x))
             ELSE FinalPass(Tail(xs), out)

\* a repair that returns the parts as they are
NoRepair(ps) == ps

_merge_short_fragments(ps) ==
    IF ps = <<>> THEN <<>> ELSE FinalPass(MergeLoop(ps, 1, <<>>), <<>>)

(***************************************************************************)
(* _split_concatenated_options                                             *)
(***************************************************************************)

\* the parts a rule of the cascade yields on the trimmed string
RuleParts(rule, x) == StripNonEmpty(re_split(rule, strip(x)))

\* a segmenter that repairs the unsplit string too
UnsplitRepaired(x) ==
    IF strip(x) = <<>> THEN <<>>
    ELSE FinalPass(MergeLoop(<<strip(x)>>, 1, <<>>), <<>>)

\* a segmenter that forgets to trim the unsplit string
UnsplitUntrimmed(x) == <<x>>

\* what the segmenter returns once no rule has split the string (line 73)
Unsplit(x) == <<strip(x)>>

\* a segmenter that tries the delimiters before the line breaks
SplitDelimitersFirst(x) ==
    IF x = <<>> THEN <<>>
    ELSE IF Len(RuleParts("delimiter", x)) > 1
    THEN _merge_short_fragments(RuleParts("delimiter", x))
    ELSE IF Len(RuleParts("linebreak", x)) > 1
    THEN _merge_short_fragments(RuleParts("linebreak", x))
    ELSE IF Len(RuleParts("numbered", x)) > 1
    THEN _merge_short_fragments(RuleParts("numbered", x))
    ELSE Unsplit(x)

\* lines 43-73
_split_concatenated_options(x) ==
    IF x = <<>> THEN <<>>
    ELSE IF Len(RuleParts("linebreak", x)) > 1
    THEN _merge_short_fragments(RuleParts("linebreak", x))
    ELSE IF Len(RuleParts("delimiter", x)) > 1
    THEN _merge_short_fragments(RuleParts("delimiter", x))
    ELSE IF Len(RuleParts("numbered", x)) > 1
    THEN _merge_short_fragments(RuleParts("numbered", x))
    ELSE Unsplit(x)

(***************************************************************************)
(* _normalize                                                              *)
(***************************************************************************)

\* re.sub(r'\s+', ' ', x)
RECURSIVE CollapseSpaces(_)
CollapseSpaces(x) ==
    IF x = <<>> THEN <<>>
    ELSE IF Head(x) \in Space
    THEN <<" ">> \o CollapseSpaces(From(x, 1 + Run(x, 1, Space)))
    ELSE <<Head(x)>> \o CollapseSpaces(Tail(x))

\* re.sub(r'^(?:\d+\.\s*)', '', x)
StripNumbering(x) ==
    LET d == Run(x, 1, Digit)
    IN  IF d >= 1 /\ d + 1 <= Len(x) /\ x[d + 1] = "."
        THEN From(x, d + 2 + Run(x, d + 2, Space))
        ELSE x

_normalize(x) ==
    IF x = <<>> THEN <<>> ELSE strip(StripNumbering(CollapseSpaces(strip(x))))

(***************************************************************************)
(* clean_questions                                                         *)
(***************************************************************************)

\* the junk set of line 284
CleanJunk ==
    { <<"m","a","r","q","u","e","r"," ","l","a"," ","q","u","e","s","t","i","o","n">>,
      <<"r","e","t","i","r","e","r"," ","l","a"," ","m","a","r","q","u","e">>,
      <<"e","f","f","a","c","e","r"," ","m","o","n"," ","c","h","o","i","x">>,
      <<"e","n","d">> }

\* a length test that is off by one
IsTinyOffByOne(a) == Len(a) <= 1

\* lines 214 and 286: a tiny fragment that is no acronym
IsTiny(a) == Len(a) <= 2 /\ ~(isupper(a) /\ 2 <= Len(a) /\ Len(a) <= 4)

\* lines 277-290: the normalised, filtered, de-duplicated options of one record
RECURSIVE NormOpts(_, _)
NormOpts(opts, acc) ==
    IF opts = <<>> THEN acc
    ELSE LET no == _normalize(Head(opts))
         IN  IF no = <<>> THEN NormOpts(Tail(opts), acc)
             ELSE IF lower(no) \in CleanJunk THEN NormOpts(Tail(opts), acc)
             ELSE IF IsTiny(no) THEN NormOpts(Tail(opts), acc)
             ELSE IF ~In(no, acc) THEN NormOpts(Tail(opts), Append(acc, no))
             ELSE NormOpts(Tail(opts), acc)

\* an extension that appends every option, seen or not
ExtendAll(have, new) == have \o new

\* lines 294-296: extend a list with the options it does not hold yet
RECURSIVE ExtendUnique(_, _)
ExtendUnique(have, new) ==
    IF new = <<>> THEN have
    ELSE IF In(Head(new), have) THEN ExtendUnique(have, Tail(new))
    ELSE ExtendUnique(Append(have, Head(new)), Tail(new))

\* an output that keeps the casing of the normalised text
OutQuestionAsIs(qtxt) == qtxt

\* what clean_questions emits as the question of a key (line 303)
OutQuestion(qtxt) == lower(qtxt)

\* a merge that never finds the key and always opens a new record
MergeRecordNoLookup(acc, qtxt, norm_opts) ==
    Append(acc, [key |-> lower(qtxt), question |-> lower(qtxt), answers |-> norm_opts])

\* a merge where a later occurrence of a key replaces the answers
MergeRecordReplace(acc, qtxt, norm_opts) ==
    LET key == lower(qtxt) IN
    IF \E i \in 1..Len(acc) : acc[i].key = key
    THEN LET i == CHOOSE j \in 1..Len(acc) : acc[j].key = key
         IN  [acc EXCEPT ![i].answers = norm_opts]
    ELSE Append(acc, [key |-> key, question |-> lower(qtxt), answers |-> norm_opts])

\* lines 292-299: merge one record into the ordered dictionary seen/order,
\* kept here as the sequence of output records
MergeRecord(acc, qtxt, norm_opts) ==
    LET key == lower(qtxt) IN
    IF \E i \in 1..Len(acc) : acc[i].key = key
    THEN LET i == CHOOSE j \in 1..Len(acc) : acc[j].key = key
         IN  [acc EXCEPT ![i].answers = ExtendUnique(acc[i].answers, norm_opts)]
    ELSE Append(acc, [key |-> key, question |-> OutQuestion(qtxt), answers |-> norm_opts])

\* a loop that keeps the records whose normalised question text is empty
RECURSIVE CleanLoopKeepEmpty(_, _)
CleanLoopKeepEmpty(qs, acc) ==
    IF qs = <<>> THEN acc
    ELSE CleanLoopKeepEmpty(Tail(qs), MergeRecord(acc, _normalize(Head(qs).question),
                                                  NormOpts(Head(qs).answers, <<>>)))

\* lines 268-299: the loop over the raw records
RECURSIVE CleanLoop(_, _)
CleanLoop(qs, acc) ==
    IF qs = <<>> THEN acc
    ELSE LET qtxt == _normalize(Head(qs).question)
         IN  IF qtxt = <<>> THEN CleanLoop(Tail(qs), acc)
             ELSE CleanLoop(Tail(qs), MergeRecord(acc, qtxt, NormOpts(Head(qs).answers, <<>>)))

clean_questions(qs) ==
    LET acc == CleanLoop(qs, <<>>)
    IN  [i \in 1..Len(acc) |-> [question |-> acc[i].question, answers |-> acc[i].answers]]

(***************************************************************************)
(* extract_questions                                                       *)
(*                                                                         *)
(* A question block (a div of class que|question|formulation) is the       *)
(* record of what the code reads from it:                                  *)
(*   has_qtext, qtext     the text nodes of the first element of class     *)
(*                        qtext|formulation|prompt, when there is one      *)
(*   has_heading, heading the text nodes of the first h3/h4/legend         *)
(*   rest                 the other text nodes of the block                *)
(*   labels               the label text found for each radio/checkbox     *)
(*                        input (empty when none of the three lookups      *)
(*                        finds a text)                                    *)
(*   items                the text of each li                              *)
(*   answer_tags          the text of each element of an answer-like class *)
(***************************************************************************)

\* sep.join(list)
RECURSIVE Join(_, _)
Join(list, sep) ==
    IF list = <<>> THEN <<>>
    ELSE IF Len(list) = 1 THEN Head(list)
    ELSE Head(list) \o sep \o Join(Tail(list), sep)

\* tag.get_text(separator=sep, strip=True) of an element with these text nodes
get_text(nodes, sep) == Join(StripNonEmpty(nodes), sep)

\* the text nodes of the whole block, in document order
BlockNodes(qb) ==
    (IF qb.has_heading THEN qb.heading ELSE <<>>)
      \o (IF qb.has_qtext THEN qb.qtext ELSE <<>>)
      \o qb.rest \o qb.labels \o qb.items \o qb.answer_tags

\* length of the match of r'\(page\s*\d+\s*(?:sur|of)\s*\d+\)' (re.I) at i
PaginationAt(x, i) ==
    IF ~At(x, i, <<"(","p","a","g","e">>, TRUE) THEN 0
    ELSE LET a  == i + 5
             w1 == Run(x, a, Space)
             d1 == Run(x, a + w1, Digit)
             w2 == Run(x, a + w1 + d1, Space)
             b  == a + w1 + d1 + w2
             k  == IF At(x, b, <<"s","u","r">>, TRUE) THEN 3
                   ELSE IF At(x, b, <<"o","f">>, TRUE) THEN 2 ELSE 0
             w3 == Run(x, b + k, Space)
             d2 == Run(x, b + k + w3, Digit)
             e  == b + k + w3 + d2
         IN  IF d1 >= 1 /\ k > 0 /\ d2 >= 1 /\ e <= Len(x) /\ x[e] = ")"
             THEN e - i + 1
             ELSE 0

\* the fixed phrases of marker_re (line 143); "Veuillez choisir au moins"
\* starts with "Veuillez choisir", which the alternation tries first
MarkerPhrases ==
    { <<"v","e","u","i","l","l","e","z"," ","c","h","o","i","s","i","r">>,
      <<"v","e","u","i","l","l","e","z"," ","c","o","c","h","e","r">>,
      <<"c","h","o","i","s","i","s","s","e","z">>,
      <<"v","e","u","i","l","l","e","z"," ","s","e_acute","l","e","c","t","i","o","n","n","e","r">>,
      <<"v","e","u","i","l","l","e","z"," ","c","h","o","i","s","i","r"," ","a","u"," ","m","o","i","n","s">> }

\* does marker_re match at position i
MarkerAt(x, i) ==
    \/ \E w \in MarkerPhrases : At(x, i, w, TRUE)
    \/ /\ At(x, i, <<"v","r","a","i">>, TRUE)
       /\ Run(x, i + 4, Space) >= 1
       /\ At(x, i + 4 + Run(x, i + 4, Space), <<"f","a","u","x">>, TRUE)

HasMarker(x) == \E i \in 1..Len(x) : MarkerAt(x, i)

\* m.start() as a 1-based position
MarkerStart(x) == CHOOSE i \in 1..Len(x) : MarkerAt(x, i) /\ \A j \in 1..(i - 1) : ~MarkerAt(x, j)

\* the phrases of the junk regex of line 212
ExtractJunk ==
    { <<"r","e","t","i","r","e","r"," ","l","a"," ","m","a","r","q","u","e">>,
      <<"e","f","f","a","c","e","r"," ","m","o","n"," ","c","h","o","i","x">>,
      <<"r","e","m","o","v","e"," ","c","h","o","i","c","e">>,
      <<"c","l","e","a","r"," ","s","e","l","e","c","t","i","o","n">>,
      <<"m","a","r","q","u","e","r"," ","l","a"," ","q","u","e","s","t","i","o","n">> }

\* does the word w stand at position i between two \b boundaries (re.I)
WordAt(x, i, w) ==
    /\ At(x, i, w, TRUE)
    /\ (i = 1 \/ x[i - 1] \notin Word)
    /\ (i + Len(w) > Len(x) \/ x[i + Len(w)] \notin Word)

\* length of the match of the junk regex of line 212 at position i
JunkPhraseAt(x, i) ==
    IF \E w \in ExtractJunk : WordAt(x, i, w)
    THEN Len(CHOOSE w \in ExtractJunk : WordAt(x, i, w))
    ELSE 0

SubAt(rule, x, i) ==
    CASE rule = "pagination" -> PaginationAt(x, i)
      [] rule = "junk"       -> JunkPhraseAt(x, i)

\* re.sub(rule, '', x)
RECURSIVE ReRemove(_, _, _)
ReRemove(rule, x, i) ==
    IF i > Len(x) THEN <<>>
    ELSE LET n == SubAt(rule, x, i)
         IN  IF n > 0 THEN ReRemove(rule, x, i + n)
             ELSE <<x[i]>> \o ReRemove(rule, x, i + 1)

\* line 140
StripPagination(x) == strip(ReRemove("pagination", x, 1))

\* line 137 and line 140: the raw question text of a block
RawQtext(qb) ==
    StripPagination(
        IF qb.has_qtext THEN get_text(qb.qtext, <<"\n">>)
        ELSE IF qb.has_heading THEN get_text(qb.heading, <<"\n">>)
        ELSE get_text(BlockNodes(qb), <<"\n">>))

\* lines 144-149
QuestionPart(raw) ==
    IF HasMarker(raw) THEN strip(SubSeq(raw, 1, MarkerStart(raw) - 1)) ELSE raw

TailPart(raw) ==
    IF HasMarker(raw) THEN strip(From(raw, MarkerStart(raw))) ELSE <<>>

\* line 190: re.sub(r'^(Veuillez choisir.*?:?|Choisissez:?)', '', tail, re.I).strip()
TailClean(tail) ==
    LET n == IF At(tail, 1, <<"v","e","u","i","l","l","e","z"," ","c","h","o","i","s","i","r">>, TRUE) THEN 16
             ELSE IF At(tail, 1, <<"c","h","o","i","s","i","s","s","e","z">>, TRUE) THEN 10
             ELSE 0
        c == IF n > 0 /\ n + 1 <= Len(tail) /\ tail[n + 1] = ":" THEN 1 ELSE 0
    IN  strip(From(tail, n + c + 1))

\* a list without its empty strings (the "if txt" tests of lines 172-186)
RECURSIVE NonEmpty(_)
NonEmpty(list) ==
    IF list = <<>> THEN <<>>
    ELSE IF Head(list) = <<>> THEN NonEmpty(Tail(list))
    ELSE <<Head(list)>> \o NonEmpty(Tail(list))

\* a discovery that takes the marker tail as one candidate
DiscoverAnswersTailWhole(qb, tail) ==
    IF NonEmpty(qb.labels) # <<>> THEN NonEmpty(qb.labels)
    ELSE IF NonEmpty(qb.items) # <<>> THEN NonEmpty(qb.items)
    ELSE IF NonEmpty(qb.answer_tags) # <<>> THEN NonEmpty(qb.answer_tags)
    ELSE IF TailClean(tail) # <<>> THEN <<TailClean(tail)>>
    ELSE <<>>

\* a discovery that gathers the candidates of every source
DiscoverAnswersEverywhere(qb, tail) ==
    NonEmpty(qb.labels) \o NonEmpty(qb.items) \o NonEmpty(qb.answer_tags)
      \o (IF tail # <<>> THEN _split_concatenated_options(TailClean(tail)) ELSE <<>>)

\* lines 151-192: the ordered discovery of answer candidates
DiscoverAnswers(qb, tail) ==
    IF NonEmpty(qb.labels) # <<>> THEN NonEmpty(qb.labels)
    ELSE IF NonEmpty(qb.items) # <<>> THEN NonEmpty(qb.items)
    ELSE IF NonEmpty(qb.answer_tags) # <<>> THEN NonEmpty(qb.answer_tags)
    ELSE IF tail # <<>> THEN _split_concatenated_options(TailClean(tail))
    ELSE <<>>

\* length of the line boundary str.splitlines() sees at position i
LineEndAt(x, i) ==
    IF At(x, i, <<"\r", "\n">>, FALSE) THEN 2
    ELSE IF x[i] \in {"\n", "\r"} THEN 1
    ELSE 0

RECURSIVE SplitLinesFrom(_, _, _)
SplitLinesFrom(x, i, cur) ==
    IF i > Len(x) THEN (IF cur = <<>> THEN <<>> ELSE <<cur>>)
    ELSE LET n == LineEndAt(x, i)
         IN  IF n > 0 THEN <<cur>> \o SplitLinesFrom(x, i + n, <<>>)
             ELSE SplitLinesFrom(x, i + 1, Append(cur, x[i]))

\* str.splitlines()
splitlines(x) == SplitLinesFrom(x, 1, <<>>)

\* lines 194-204: a single candidate is split again
Resplit(answers) ==
    IF Len(answers) # 1 THEN answers
    ELSE LET cand == answers[1]
         IN  IF \E i \in 1..Len(cand) : cand[i] = "\n"
             THEN IF Len(StripNonEmpty(splitlines(cand))) > 1
                  THEN StripNonEmpty(splitlines(cand)) ELSE answers
             ELSE IF Len(_split_concatenated_options(cand)) > 1
                  THEN _split_concatenated_options(cand) ELSE answers

\* a junk filter that rejects the whole answer once it holds a phrase
StripJunkRejectWhole(a) ==
    IF \E i \in 1..Len(a) : JunkPhraseAt(a, i) > 0 THEN <<>> ELSE strip(a)

\* line 212
StripJunkPhrases(a) == strip(ReRemove("junk", a, 1))

\* lines 207-218: the final cleaning of the candidates
RECURSIVE FinalCleaning(_, _)
FinalCleaning(answers, acc) ==
    IF answers = <<>> THEN acc
    ELSE LET a  == Head(answers)
             a2 == StripJunkPhrases(a)
         IN  IF a = <<>> THEN FinalCleaning(Tail(answers), acc)
             ELSE IF IsTiny(a2) THEN FinalCleaning(Tail(answers), acc)
             ELSE IF a2 # <<>> /\ ~In(a2, acc) THEN FinalCleaning(Tail(answers), Append(acc, a2))
             ELSE FinalCleaning(Tail(answers), acc)

\* line 221: re.search(r'\b(Vrai|Faux|VRAI|FAUX)\b', raw_qtext, re.I)
HasTrueFalseCue(raw) ==
    \E i \in 1..Len(raw) :
        WordAt(raw, i, <<"v","r","a","i">>) \/ WordAt(raw, i, <<"f","a","u","x">>)

TrueFalse == << <<"V","R","A","I">>, <<"F","A","U","X">> >>

\* lines 229-234: the lines after the first, longer than 2, without repeats
RECURSIVE LongLines(_, _)
LongLines(lines, acc) ==
    IF lines = <<>> THEN acc
    ELSE IF Len(Head(lines)) > 2 /\ ~In(Head(lines), acc)
    THEN LongLines(Tail(lines), Append(acc, Head(lines)))
    ELSE LongLines(Tail(lines), acc)

\* lines 225-234: the last-resort line fallback
LineFallback(raw) ==
    LET lines == StripNonEmpty(splitlines(raw))
    IN  IF (\E i \in 1..Len(raw) : raw[i] = "\n") /\ Len(lines) > 1
        THEN LongLines(Tail(lines), <<>>)
        ELSE <<>>

\* the answers of a block, were the line fallback tried before the
\* true/false fallback
BlockAnswersLinesFirst(qb) ==
    LET raw     == RawQtext(qb)
        answers == FinalCleaning(Resplit(DiscoverAnswers(qb, TailPart(raw))), <<>>)
    IN  IF answers # <<>> THEN answers
        ELSE IF LineFallback(raw) # <<>> THEN LineFallback(raw)
        ELSE IF HasTrueFalseCue(raw) THEN TrueFalse
        ELSE <<>>

\* lines 206-234: the answers of a block
BlockAnswers(qb) ==
    LET raw     == RawQtext(qb)
        answers == FinalCleaning(Resplit(DiscoverAnswers(qb, TailPart(raw))), <<>>)
    IN  IF answers # <<>> THEN answers
        ELSE IF HasTrueFalseCue(raw) THEN TrueFalse
        ELSE LineFallback(raw)

\* a fallback that prefers the first line of the raw text to the heading
FallbackQuestionFirstLine(qb, raw) ==
    IF raw # <<>> THEN strip(Head(splitlines(raw)))
    ELSE IF qb.has_heading THEN get_text(qb.heading, <<" ">>)
    ELSE <<>>

\* lines 237-244: the question text when the prompt part is empty
FallbackQuestion(qb, raw) ==
    IF qb.has_heading THEN get_text(qb.heading, <<" ">>)
    ELSE IF raw # <<>> THEN strip(Head(splitlines(raw)))
    ELSE <<>>

\* lines 236-247: the question text of a block
BlockQuestion(qb) ==
    LET raw == RawQtext(qb)
        q   == QuestionPart(raw)
    IN  strip(CollapseSpaces(IF q = <<>> THEN FallbackQuestion(qb, raw) ELSE q))

\* the records one block contributes, were a record without answers left out
ExtractBlockWithAnswers(qb) ==
    IF BlockQuestion(qb) # <<>> /\ BlockAnswers(qb) # <<>>
    THEN << [question |-> BlockQuestion(qb), answers |-> BlockAnswers(qb)] >>
    ELSE <<>>

\* lines 134-249: the records one block contributes
ExtractBlock(qb) ==
    IF BlockQuestion(qb) # <<>>
    THEN << [question |-> BlockQuestion(qb), answers |-> BlockAnswers(qb)] >>
    ELSE <<>>

\* extract_questions of a page, given the sequence of its question blocks
RECURSIVE extract_questions(_)
extract_questions(qblocks) ==
    IF qblocks = <<>> THEN <<>>
    ELSE ExtractBlock(Head(qblocks)) \o extract_questions(Tail(qblocks))

(***************************************************************************)
(* Inputs: the strings, answer lists and question blocks the                *)
(* specifications draw from                                                *)
(***************************************************************************)

\* 'LAN'
T_LAN == <<"L","A","N">>

\* 'WAN'
T_WAN == <<"W","A","N">>

\* 'MAN'
T_MAN == <<"M","A","N">>

\* 'END'
T_END == <<"E","N","D">>

\* 'end'
T_end == <<"e","n","d">>

\* 'A'
T_A == <<"A">>

\* 'B'
T_B == <<"B">>

\* 'C'
T_C == <<"C">>

\* 'ab'
T_ab == <<"a","b">>

\* 'a'
T_a == <<"a">>

\* 'à'
T_agrave == <<"a_grave">>

\* 'Réseau'
T_Reseau == <<"R","e_acute","s","e","a","u">>

\* 'Clear selection'
T_ClearSelection == <<"C","l","e","a","r"," ","s","e","l","e","c","t","i","o","n">>

\* 'Remove choice'
T_RemoveChoice == <<"R","e","m","o","v","e"," ","c","h","o","i","c","e">>

\* 'LAN Clear selection'
T_LanClear == <<"L","A","N"," ","C","l","e","a","r"," ","s","e","l","e","c","t","i","o","n">>

\* '1. LAN'
T_NumLan == <<"1","."," ","L","A","N">>

\* 'LAN;WAN'
T_LanSemiWan == <<"L","A","N",";","W","A","N">>

\* 'Quoi?'
T_Quoi == <<"Q","u","o","i","?">>

\* 'QUOI? '
T_QUOI == <<"Q","U","O","I","?"," ">>

\* '1. Quoi?'
T_NumQuoi == <<"1","."," ","Q","u","o","i","?">>

\* 'Autre?'
T_Autre == <<"A","u","t","r","e","?">>

\* 'Quoi? (page 1 sur 2)'
T_QuoiPage == <<"Q","u","o","i","?"," ","(","p","a","g","e"," ","1"," ","s","u","r"," ","2",")">>

\* 'Quoi? Veuillez choisir: LAN;WAN;end'
T_QuoiTail == <<"Q","u","o","i","?"," ","V","e","u","i","l","l","e","z"," ","c","h","o","i","s","i","r",":"," ","L","A","N",";","W","A","N",";","e","n","d">>

\* 'Quoi? Veuillez choisir: LAN;LAN;WAN'
T_QuoiTailDup == <<"Q","u","o","i","?"," ","V","e","u","i","l","l","e","z"," ","c","h","o","i","s","i","r",":"," ","L","A","N",";","L","A","N",";","W","A","N">>

\* 'LAN\nLAN\nWAN'
T_LanLines == <<"L","A","N","\n","L","A","N","\n","W","A","N">>

\* 'Veuillez choisir:'
T_Choisir == <<"V","e","u","i","l","l","e","z"," ","c","h","o","i","s","i","r",":">>

\* 'Vrai ou Faux: Quoi'
T_VraiFaux == <<"V","r","a","i"," ","o","u"," ","F","a","u","x",":"," ","Q","u","o","i">>

\* 'Titre'
T_Titre == <<"T","i","t","r","e">>

\* 'Titre (page 1 sur 2)'
T_TitrePage == <<"T","i","t","r","e"," ","(","p","a","g","e"," ","1"," ","s","u","r"," ","2",")">>

\* every concatenation of the strings of a tuple
\* '1.'
T_Num == <<"1", ".">>

\* 'vraiment?'
T_Vraiment == <<"v", "r", "a", "i", "m", "e", "n", "t", "?">>

\* 'Quoi? Veuillez choisir:'
T_QuoiChoisir == <<"Q", "u", "o", "i", "?", " ", "V", "e", "u", "i", "l", "l", "e", "z", " ", "c", "h", "o", "i", "s", "i", "r", ":">>

\* 'Réseau', a line break, 'à'
T_ReseauLineA == <<"R", "e_acute", "s", "e", "a", "u", "\n", "a_grave">>

\* 'Réseau à'
T_ReseauA == <<"R", "e_acute", "s", "e", "a", "u", " ", "a_grave">>

\* 'Réseau;à'
T_ReseauSemiA == <<"R", "e_acute", "s", "e", "a", "u", ";", "a_grave">>

\* 'Quoi? Veuillez cocher: LAN;WAN'
T_QuoiCocher == <<"Q","u","o","i","?"," ","V","e","u","i","l","l","e","z"," ","c","o","c","h","e","r",":"," ","L","A","N",";","W","A","N">>

\* 'Quoi? Veuillez choisir au moins une: LAN;WAN'
T_QuoiAuMoins == <<"Q","u","o","i","?"," ","V","e","u","i","l","l","e","z"," ","c","h","o","i","s","i","r"," ","a","u"," ","m","o","i","n","s"," ","u","n","e",":"," ","L","A","N",";","W","A","N">>

\* 'ab Clear selection'
T_abClear == <<"a","b"," ","C","l","e","a","r"," ","s","e","l","e","c","t","i","o","n">>

\* 'LANClear selection'
T_LANClear == <<"L","A","N","C","l","e","a","r"," ","s","e","l","e","c","t","i","o","n">>

RECURSIVE Concat(_)
Concat(ws) == IF ws = <<>> THEN <<>> ELSE Head(ws) \o Concat(Tail(ws))

\* the strings made of at most n pieces taken from atoms
Strings(atoms, n) == {Concat(ws) : ws \in UNION {[1..k -> atoms] : k \in 0..n}}

\* the lists of at most n elements taken from a set
Lists(of, n) == UNION {[1..k -> of] : k \in 0..n}

MaxSegAtoms == 3

MaxNormAtoms == 3

MaxRecords == 2

MaxPages == 2

MaxOccurrences == 3

\* pieces of the strings handed to the segmenter
SegAtoms ==
    { T_a, T_ab, T_A, T_LAN, T_end, T_agrave, T_Reseau, T_LanSemiWan,
      <<" ">>, <<"\n">>, <<"\r">>, <<";">>, <<"-">>, <<"1">>, <<")">>, <<"1", ")">>, <<"?">> }

\* pieces of the strings handed to _normalize
NormAtoms ==
    { <<"1", ".", " ">>, <<"2", ".">>, <<"1">>, <<".">>, <<"x">>, <<" ">>, <<"\n">>, T_A }

\* raw records handed to clean_questions
RawQuestionTexts ==
    { <<"Q", "1">>, <<"q", "1", " ">>, <<"q", "1">>, <<"1", ".", " ", "Q", "1">>, T_QUOI,
      T_Num, <<" ">> }

RawAnswerLists ==
    { <<>>, <<T_A, T_B>>, <<T_B, T_C>>, <<T_LAN, T_WAN>>, <<T_WAN, T_MAN>>,
      <<T_LAN, T_LAN>>, <<T_NumLan, T_end>>, <<T_ab, T_LAN>> }

RawRecords == [question : RawQuestionTexts, answers : RawAnswerLists]

\* raw records of a few keys, for lists in which a key comes back
RepeatedRecords ==
    [ question : { <<"Q", "1">>, <<"q", "1", " ">>, T_QUOI, T_Num },
      answers  : { <<>>, <<T_LAN, T_WAN>>, <<T_WAN, T_MAN>>, <<T_ab, T_LAN>> } ]

\* question blocks of the fetched pages
Block(qtext, heading, labels, items, answer_tags) ==
    [ has_qtext |-> qtext # <<>>, qtext |-> qtext,
      has_heading |-> heading # <<>>, heading |-> heading,
      rest |-> <<>>, labels |-> labels, items |-> items, answer_tags |-> answer_tags ]

CandidateLists ==
    { <<T_LAN, T_WAN>>, <<T_WAN, T_LAN, T_WAN>>, <<T_END>>, <<T_A, T_ab>>,
      <<T_ClearSelection, T_LAN>>, <<T_LanClear, T_end>>, <<T_Reseau, T_agrave>>,
      <<T_LanSemiWan>>, <<T_RemoveChoice>>, <<T_LAN, T_NumLan>>, <<T_LanLines>> }

LabelBlocks ==
    { Block(<<q>>, <<>>, l, <<>>, <<>>) : q \in {T_Quoi, T_QUOI}, l \in CandidateLists }

ItemBlocks ==
    { Block(<<T_Quoi>>, <<>>, <<>>, l, <<>>) :
        l \in { <<T_LAN, T_MAN>>, <<T_END, T_LAN>>, <<T_ClearSelection>> } }

TagBlocks ==
    { Block(<<T_Autre>>, <<>>, <<>>, <<>>, l) :
        l \in { <<T_MAN, T_MAN>>, <<T_END>>, <<T_RemoveChoice, T_WAN>> } }

PromptBlocks ==
    { Block(q, h, <<>>, <<>>, <<>>) :
        q \in { <<>>, <<T_Quoi>>, <<T_Quoi, T_ClearSelection>>, <<T_Quoi, T_LAN, T_end>>,
                <<T_QuoiPage>>, <<T_QuoiTail>>, <<T_QuoiTailDup>>,
                <<T_Choisir, T_LAN, T_WAN>>, <<T_VraiFaux>> },
        h \in { <<>>, <<T_Titre>>, <<T_TitrePage>> } }

\* blocks without prompt container or heading: the raw text is the text of
\* the whole block
BareBlocks ==
    { [Block(<<>>, <<>>, l, <<>>, <<>>) EXCEPT !.rest = r] :
        r \in { <<T_Quoi, T_LAN, T_LAN>>, <<T_QuoiPage>> },
        l \in { <<>>, <<T_LAN, T_WAN>> } }

Blocks == LabelBlocks \cup ItemBlocks \cup TagBlocks \cup PromptBlocks \cup BareBlocks

\* extract_questions(BeautifulSoup(resp.text, 'html.parser')) for a page
\* holding the one question block qb (lines 343, 354, 364)
ExtractPage == [qb \in Blocks |-> extract_questions(<<qb>>)]

\* question blocks with several answer sources at once: each field of a
\* block is drawn on its own
PageQtexts ==
    { <<>>, <<T_Quoi>>, <<T_Num>>, <<T_Quoi, T_LAN, T_end>>, <<T_VraiFaux>>,
      <<T_VraiFaux, T_LAN>>, <<T_Vraiment>>, <<T_QuoiTail>>,
      <<T_QuoiChoisir, T_Reseau, T_agrave>>, <<T_Choisir, T_LAN, T_WAN>>,
      <<T_QuoiCocher>>, <<T_QuoiAuMoins>> }

PageHeadings == { <<>>, <<T_Titre>> }

PageRests == { <<>>, <<T_Autre>> }

PageLabels ==
    { <<>>, << <<>> >>, <<T_LAN, T_WAN>>, <<T_Reseau, T_agrave>>, <<T_A, T_ab>>,
      <<T_ReseauSemiA>>, <<T_ReseauLineA>>, <<T_LanClear, T_abClear>>,
      <<T_ClearSelection, T_LANClear>> }

PageItems == { <<>>, <<T_MAN, T_LAN>>, <<T_Reseau, T_agrave>> }

PageAnswerTags == { <<>>, <<T_WAN>>, <<T_Reseau, T_agrave>> }

\* blocks whose fields are drawn on their own
FieldBlocks ==
    { [Block(q, h, l, it, at) EXCEPT !.rest = r] :
        q \in PageQtexts, h \in PageHeadings, r \in PageRests,
        l \in PageLabels, it \in PageItems, at \in PageAnswerTags }

\* blocks with a heading element that holds no text
EmptyHeadingBlocks ==
    { [Block(q, <<>>, <<>>, <<>>, <<>>) EXCEPT !.has_heading = TRUE, !.rest = r] :
        q \in { <<>>, <<T_Quoi>>, <<T_Choisir, T_LAN, T_WAN>> }, r \in PageRests }

PageBlocks == FieldBlocks \cup EmptyHeadingBlocks


(***************************************************************************)
(* The pages of one attempt, as the three download_quiz fetch them         *)
(***************************************************************************)

\* the pages of an attempt are numbered 0..MaxPageIndex
MaxPageIndex == 10

DigitChars == <<"0", "1", "2", "3", "4", "5", "6", "7", "8", "9">>

\* str(p) of a page number
RECURSIVE Decimal(_)
Decimal(n) ==
    IF n < 10 THEN <<DigitChars[n + 1]>>
    ELSE Decimal(n \div 10) \o <<DigitChars[(n % 10) + 1]>>

\* int(x) of a run of digits
RECURSIVE IntOf(_)
IntOf(ds) ==
    IF ds = <<>> THEN 0
    ELSE 10 * IntOf(SubSeq(ds, 1, Len(ds) - 1))
         + ((CHOOSE d \in 1..10 : DigitChars[d] = ds[Len(ds)]) - 1)

\* the characters of a page URL in ascending code point order
UrlChars ==
    <<"&", ".", "0", "1", "2", "3", "4", "5", "6", "7", "8", "9", "=", "?",
      "a", "e", "g", "h", "m", "p", "t">>

ord(c) == CHOOSE i \in 1..Len(UrlChars) : UrlChars[i] = c

\* a < b of two str: the first differing character decides, a proper
\* prefix comes first
RECURSIVE StrLess(_, _)
StrLess(a, b) ==
    IF b = <<>> THEN FALSE
    ELSE IF a = <<>> THEN TRUE
    ELSE IF Head(a) = Head(b) THEN StrLess(Tail(a), Tail(b))
    ELSE ord(Head(a)) < ord(Head(b))

\* sorted(pages) of a set of int
RECURSIVE sorted_int(_)
sorted_int(S) ==
    IF S = {} THEN <<>>
    ELSE LET least == CHOOSE x \in S : \A y \in S : x <= y
         IN  <<least>> \o sorted_int(S \ {least})

\* sorted(list(page_urls)) of a set of str
RECURSIVE sorted_str(_)
sorted_str(S) ==
    IF S = {} THEN <<>>
    ELSE LET least == CHOOSE x \in S : \A y \in S : ~StrLess(y, x)
         IN  <<least>> \o sorted_str(S \ {least})

\* range(0, total)
range(total) == [i \in 1..total |-> i - 1]

\* the URL of the attempt, which shows its first page
T_AttemptUrl == <<"a","t","t","e","m","p","t",".","p","h","p","?","a","t","t","e","m","p","t","=","1">>

T_PageParam == <<"&","p","a","g","e","=">>

\* urljoin(current_url, p['href']) of the link to page p
PageUrl(p) == T_AttemptUrl \o T_PageParam \o Decimal(p)

\* the page the server answers a URL with
PageOf(url) ==
    IF url = T_AttemptUrl THEN 0
    ELSE IntOf(SubSeq(url, Len(T_AttemptUrl) + Len(T_PageParam) + 1, Len(url)))

\* the records extract_questions finds on page p
PageRecords(p) ==
    <<[question |-> <<"Q">> \o Decimal(p) \o <<"?">>, answers |-> <<T_LAN, T_WAN>>]>>

\* the order in which download_quiz fetches the pages: by the count of
\* 'page N sur M', by the numbers of the page= parameters, or by the URLs of
\* the links of the navigation block
PageOrder(how, q) ==
    CASE how = "count" -> range(q.total)
      [] how = "enumerated" -> sorted_int(q.pages)
      [] how = "page_urls" ->
            LET page_urls == {PageUrl(p) : p \in q.pages} \cup {T_AttemptUrl}
                urls == sorted_str(page_urls)
            IN  [i \in 1..Len(urls) |-> PageOf(urls[i])]


(***************************************************************************)
(* The 'next' navigation of download_quiz (lines 356-379)                  *)
(***************************************************************************)

\* the page URLs of an attempt are 0..MaxPageUrl
MaxPageUrl == 2

PageUrls == 0..MaxPageUrl

\* a page without a 'next' submit form
NoNext == -1

\* the URL the POST of the 'next' form of each page answers with
Sites == [PageUrls -> PageUrls \cup {NoNext}]

\* a loop that takes no URL for visited
VisitedNever(url, seen) == FALSE

\* line 360: current.url in visited
Visited(url, seen) == url \in seen


(***************************************************************************)
(* main and the outcomes of download_quiz (lines 306-395, 424-434)         *)
(***************************************************************************)

\* main finds at most MaxQuizLinks quiz links in the course
MaxQuizLinks == 2

\* the call of download_quiz for one link: whether the quiz is closed and the
\* steps that raised an exception
NewCall == [closed |-> FALSE, raised |-> {}]

\* the record lists the pages of a quiz may yield
PageYields == {<<>>, PageRecords(0), PageRecords(0) \o PageRecords(1)}

\* a main that counts every quiz as saved
CountedAlways(path, n) == n + 1

\* lines 426-428: if path: saved += 1
Counted(path, n) == IF path = "path" THEN n + 1 ELSE n


(***************************************************************************)
(* download_quiz of quizzes.py and download_moodle_resources.py            *)
(***************************************************************************)

\* the href of the link to the review of an attempt, the action of the start
\* form of a quiz and the action of another form
T_ReviewHref == <<"r","e","v","i","e","w",".","p","h","p","?","a","t","t","e","m","p","t","=","5">>

T_AttemptAction == <<"a","t","t","e","m","p","t",".","p","h","p">>

T_ViewAction == <<"v","i","e","w",".","p","h","p">>

\* pattern.search(x) of a pattern without operators: x holds the literal
Searched(literal, x) ==
    \E k \in 1..(Len(x) - Len(literal) + 1) :
        SubSeq(x, k, k + Len(literal) - 1) = literal

\* re.compile(r'review\.php\?attempt=') of download_moodle_resources.py and
\* re.compile(r'review\\.php\\?attempt=') of quizzes.py, which asks for a
\* backslash and any character between 'review' and 'php' and lets a
\* backslash, not a question mark, come before 'attempt='
ReviewPattern(file, href) ==
    IF file = "download_moodle_resources.py"
    THEN Searched(<<"r","e","v","i","e","w",".","p","h","p","?","a","t","t","e","m","p","t","=">>, href)
    ELSE \E k \in 1..Len(href) :
            \/ Searched(<<"r","e","v","i","e","w","\\">> \o <<href[k]>> \o <<"p","h","p","a","t","t","e","m","p","t","=">>, href)
            \/ Searched(<<"r","e","v","i","e","w","\\">> \o <<href[k]>> \o <<"p","h","p","\\","a","t","t","e","m","p","t","=">>, href)

\* re.compile(r'attempt\.php') and re.compile(r'attempt\\.php')
AttemptPattern(file, action) ==
    IF file = "download_moodle_resources.py"
    THEN Searched(<<"a","t","t","e","m","p","t",".","p","h","p">>, action)
    ELSE \E k \in 1..Len(action) :
            Searched(<<"a","t","t","e","m","p","t","\\">> \o <<action[k]>> \o <<"p","h","p">>, action)

\* the quiz pages download_quiz is called on: whether QUIZ_<title>.json
\* exists, whether the quiz is closed, the href of its review link and the
\* action of its POST form, if any
QuizPages ==
    [ file : {"quizzes.py", "download_moodle_resources.py"},
      exists : BOOLEAN, closed : BOOLEAN,
      review_href : {<<>>, T_ReviewHref},
      form_action : {<<>>, T_AttemptAction, T_ViewAction},
      attempt_page : {"unbound"}, posted : {FALSE}, raised : {{}} ]


(***************************************************************************)
(* Specifications                                                          *)
(***************************************************************************)

\* no attempt is being downloaded
NoCrawl ==
    /\ strategy = "" /\ pending = <<>> /\ fetched = <<>>
    /\ site = <<>> /\ current = 0 /\ visited = {}
    /\ quiz = <<>> /\ quiz_links = 0 /\ returned = <<>>
    /\ saved = 0 /\ failed = FALSE

Idle ==
    /\ s = <<>> /\ parts = <<>> /\ text = <<>> /\ normalized = <<>>
    /\ blocks = <<>> /\ questions = <<>> /\ cleaned = <<>>

\* download_quiz: the pages of one attempt are fetched and extracted in
\* order, then the records are cleaned and saved
Init ==
    /\ pc = "fetch"
    /\ Idle
    /\ NoCrawl

\* lines 342-343, 353-354, 363-364: one more page is fetched and its
\* records appended
FetchPage ==
    /\ pc = "fetch"
    /\ Len(blocks) < MaxPages
    /\ \E qb \in Blocks :
          /\ blocks' = Append(blocks, qb)
          /\ questions' = questions \o ExtractPage[qb]
    /\ UNCHANGED <<pc, s, parts, text, normalized, cleaned>>
    /\ UNCHANGED crawl

\* lines 388-390: the records are cleaned and written
Save ==
    /\ pc = "fetch"
    /\ cleaned' = clean_questions(questions)
    /\ pc' = "saved"
    /\ UNCHANGED <<s, parts, text, normalized, blocks, questions>>
    /\ UNCHANGED crawl

Next == FetchPage \/ Save

Spec == Init /\ [][Next]_vars

\* _split_concatenated_options applied to one string
InitSeg ==
    /\ pc = "call"
    /\ s \in Strings(SegAtoms, MaxSegAtoms)
    /\ parts = <<>> /\ text = <<>> /\ normalized = <<>>
    /\ blocks = <<>> /\ questions = <<>> /\ cleaned = <<>>
    /\ NoCrawl

SplitOptions ==
    /\ pc = "call"
    /\ parts' = _split_concatenated_options(s)
    /\ pc' = "return"
    /\ UNCHANGED <<s, text, normalized, blocks, questions, cleaned>>
    /\ UNCHANGED crawl

SpecSeg == InitSeg /\ [][SplitOptions]_vars

\* _normalize applied to one string
InitNorm ==
    /\ pc = "call"
    /\ text \in Strings(NormAtoms, MaxNormAtoms)
    /\ s = <<>> /\ parts = <<>> /\ normalized = <<>>
    /\ blocks = <<>> /\ questions = <<>> /\ cleaned = <<>>
    /\ NoCrawl

Normalize ==
    /\ pc = "call"
    /\ normalized' = _normalize(text)
    /\ pc' = "return"
    /\ UNCHANGED <<s, parts, text, blocks, questions, cleaned>>
    /\ UNCHANGED crawl

SpecNorm == InitNorm /\ [][Normalize]_vars

\* clean_questions applied to a list of raw records
InitClean ==
    /\ pc = "call"
    /\ questions \in Lists(RawRecords, MaxRecords)
    /\ s = <<>> /\ parts = <<>> /\ text = <<>> /\ normalized = <<>>
    /\ blocks = <<>> /\ cleaned = <<>>
    /\ NoCrawl

Clean ==
    /\ pc = "call"
    /\ cleaned' = clean_questions(questions)
    /\ pc' = "return"
    /\ UNCHANGED <<s, parts, text, normalized, blocks, questions>>
    /\ UNCHANGED crawl

SpecClean == InitClean /\ [][Clean]_vars

\* extract_questions applied to one page, then clean_questions applied to
\* its records (lines 343 and 388)
InitExtract ==
    /\ pc = "page"
    /\ blocks \in {<<>>} \cup {<<qb>> : qb \in PageBlocks}
    /\ s = <<>> /\ parts = <<>> /\ text = <<>> /\ normalized = <<>>
    /\ questions = <<>> /\ cleaned = <<>>
    /\ NoCrawl

Extract ==
    /\ pc = "page"
    /\ questions' = extract_questions(blocks)
    /\ pc' = "extracted"
    /\ UNCHANGED <<s, parts, text, normalized, blocks, cleaned>>
    /\ UNCHANGED crawl

CleanPage ==
    /\ pc = "extracted"
    /\ cleaned' = clean_questions(questions)
    /\ pc' = "cleaned"
    /\ UNCHANGED <<s, parts, text, normalized, blocks, questions>>
    /\ UNCHANGED crawl

NextExtract == Extract \/ CleanPage

SpecExtract == InitExtract /\ [][NextExtract]_vars

\* clean_questions applied to a longer list of raw records of few keys
InitCleanRepeated ==
    /\ pc = "call"
    /\ questions \in Lists(RepeatedRecords, MaxOccurrences)
    /\ s = <<>> /\ parts = <<>> /\ text = <<>> /\ normalized = <<>>
    /\ blocks = <<>> /\ cleaned = <<>>
    /\ NoCrawl

SpecCleanRepeated == InitCleanRepeated /\ [][Clean]_vars

\* download_quiz from the attempt page on: the pages are collected, fetched
\* one by one and the records written
InitPages ==
    /\ pc = "attempt"
    /\ \/ /\ strategy = "count"
          /\ quiz \in [total : 1..(MaxPageIndex + 1), pages : {{}}]
       \/ /\ strategy = "enumerated"
          /\ quiz \in [total : {0}, pages : (SUBSET (0..MaxPageIndex)) \ {{}}]
       \/ /\ strategy = "page_urls"
          /\ quiz \in [total : {0}, pages : SUBSET (1..MaxPageIndex)]
    /\ pending = <<>> /\ fetched = <<>>
    /\ site = <<>> /\ current = 0 /\ visited = {}
    /\ quiz_links = 0 /\ returned = <<>> /\ saved = 0 /\ failed = FALSE
    /\ Idle

CollectPages ==
    /\ pc = "attempt"
    /\ pending' = PageOrder(strategy, quiz)
    /\ pc' = "pages"
    /\ UNCHANGED <<s, parts, text, normalized, blocks, questions, cleaned>>
    /\ UNCHANGED <<strategy, fetched, site, current, visited, quiz,
                   quiz_links, returned, saved, failed>>

FetchNextPage ==
    /\ pc = "pages"
    /\ pending # <<>>
    /\ fetched' = Append(fetched, Head(pending))
    /\ questions' = questions \o PageRecords(Head(pending))
    /\ pending' = Tail(pending)
    /\ UNCHANGED <<pc, s, parts, text, normalized, blocks, cleaned>>
    /\ UNCHANGED <<strategy, site, current, visited, quiz,
                   quiz_links, returned, saved, failed>>

WriteQuiz ==
    /\ pc = "pages"
    /\ pending = <<>>
    /\ cleaned' = IF strategy = "page_urls" THEN questions
                  ELSE clean_questions(questions)
    /\ pc' = "saved"
    /\ UNCHANGED <<s, parts, text, normalized, blocks, questions>>
    /\ UNCHANGED crawl

NextPages == CollectPages \/ FetchNextPage \/ WriteQuiz

SpecPages == InitPages /\ [][NextPages]_vars

\* the strings at the boundary of the acronym exemption: 3 characters all
\* uppercase, 2 characters not all uppercase, and their nearest neighbours
BoundaryStrings ==
    { T_LAN, T_MAN, T_END, T_ab, <<"A", "b">>, <<"1", "2">>, <<"o", "k">>,
      <<"A", "B">>, <<"a", "b", "c">> }

\* the parts that may stand before or after such a string
Neighbours == { <<>>, T_Reseau, T_LAN, T_end, T_ab, <<"?">>, <<"-", "-", "-">> }

\* the string between two neighbours, one per line
OnLines(before, x, after) ==
    (IF before = <<>> THEN <<>> ELSE before \o <<"\n">>) \o x
        \o (IF after = <<>> THEN <<>> ELSE <<"\n">> \o after)

\* the string as one of two labels of a question block
LabelBlock(x) == Block(<<T_Quoi>>, <<>>, <<x, T_WAN>>, <<>>, <<>>)

\* the string as one of two answers of a raw record
AnswerRecord(x) == [question |-> T_Quoi, answers |-> <<x, T_WAN>>]

\* one boundary string handed to the segmenter (between neighbours), to
\* extract_questions (as a label) and to clean_questions (as an answer)
InitBoundary ==
    /\ pc = "call"
    /\ text \in BoundaryStrings
    /\ \E before \in Neighbours, after \in Neighbours : s = OnLines(before, text, after)
    /\ blocks = <<LabelBlock(text)>>
    /\ parts = <<>> /\ normalized = <<>> /\ questions = <<>> /\ cleaned = <<>>
    /\ NoCrawl

SplitBoundary ==
    /\ pc = "call"
    /\ parts' = _split_concatenated_options(s)
    /\ pc' = "split"
    /\ UNCHANGED <<s, text, normalized, blocks, questions, cleaned>>
    /\ UNCHANGED crawl

ExtractBoundary ==
    /\ pc = "split"
    /\ questions' = extract_questions(blocks)
    /\ pc' = "extracted"
    /\ UNCHANGED <<s, parts, text, normalized, blocks, cleaned>>
    /\ UNCHANGED crawl

CleanBoundary ==
    /\ pc = "extracted"
    /\ cleaned' = clean_questions(<<AnswerRecord(text)>>)
    /\ pc' = "cleaned"
    /\ UNCHANGED <<s, parts, text, normalized, blocks, questions>>
    /\ UNCHANGED crawl

NextBoundary == SplitBoundary \/ ExtractBoundary \/ CleanBoundary

SpecBoundary == InitBoundary /\ [][NextBoundary]_vars

\* download_quiz once neither a page count nor a page= parameter was found:
\* the attempt is walked through its 'next' forms, then the file is written
InitNav ==
    /\ pc = "loop"
    /\ strategy = "next"
    /\ site \in Sites
    /\ current = 0 /\ visited = {}
    /\ pending = <<>> /\ fetched = <<>>
    /\ quiz = <<>> /\ quiz_links = 0 /\ returned = <<>>
    /\ saved = 0 /\ failed = FALSE
    /\ Idle

\* lines 360-361: the current URL was seen before
Revisit ==
    /\ pc = "loop"
    /\ Visited(current, visited)
    /\ pc' = "write"
    /\ UNCHANGED <<s, parts, text, normalized, blocks, questions, cleaned>>
    /\ UNCHANGED crawl

\* lines 362-369: the page is extracted and has no 'next' form
VisitLast ==
    /\ pc = "loop"
    /\ ~Visited(current, visited)
    /\ site[current] = NoNext
    /\ visited' = visited \cup {current}
    /\ fetched' = Append(fetched, current)
    /\ questions' = questions \o PageRecords(current)
    /\ pc' = "write"
    /\ UNCHANGED <<s, parts, text, normalized, blocks, cleaned>>
    /\ UNCHANGED <<strategy, pending, site, current, quiz, quiz_links,
                   returned, saved, failed>>

\* lines 362-377: the page is extracted and its 'next' form posted
VisitAndPost ==
    /\ pc = "loop"
    /\ ~Visited(current, visited)
    /\ site[current] # NoNext
    /\ visited' = visited \cup {current}
    /\ fetched' = Append(fetched, current)
    /\ questions' = questions \o PageRecords(current)
    /\ \/ current' = site[current] /\ UNCHANGED <<pc, failed>>
       \/ pc' = "write" /\ failed' = TRUE /\ UNCHANGED current
    /\ UNCHANGED <<s, parts, text, normalized, blocks, cleaned>>
    /\ UNCHANGED <<strategy, pending, site, quiz, quiz_links, returned, saved>>

\* lines 381-392: the records are cleaned and written, the path returned
WriteFile ==
    /\ pc = "write"
    /\ cleaned' = clean_questions(questions)
    /\ returned' = Append(returned, "path")
    /\ pc' = "saved"
    /\ UNCHANGED <<s, parts, text, normalized, blocks, questions>>
    /\ UNCHANGED <<strategy, pending, fetched, site, current, visited, quiz,
                   quiz_links, saved, failed>>

\* lines 393-395: the page could not be parsed or the file not written
Raise ==
    /\ \/ pc = "loop" /\ ~Visited(current, visited)
          /\ visited' = visited \cup {current}
       \/ pc = "write" /\ UNCHANGED visited
    /\ returned' = Append(returned, "None")
    /\ failed' = TRUE
    /\ pc' = "failed"
    /\ UNCHANGED <<s, parts, text, normalized, blocks, questions, cleaned>>
    /\ UNCHANGED <<strategy, pending, fetched, site, current, quiz,
                   quiz_links, saved>>

NextNav == Revisit \/ VisitLast \/ VisitAndPost \/ Raise \/ WriteFile

SpecNav == InitNav /\ [][NextNav]_vars

\* download_quiz runs on: every request returns or raises within its timeout
SpecNavFair == SpecNav /\ WF_vars(NextNav)

\* main once the quiz links of the course are found
InitMain ==
    /\ pc = "main"
    /\ quiz_links \in 0..MaxQuizLinks
    /\ returned = <<>> /\ saved = 0
    /\ quiz = NewCall /\ failed = FALSE
    /\ strategy = "" /\ pending = <<>> /\ fetched = <<>>
    /\ site = <<>> /\ current = 0 /\ visited = {}
    /\ Idle

\* lines 424-425: download_quiz is called for the next link
CallDownload ==
    /\ pc = "main"
    /\ Len(returned) < quiz_links
    /\ quiz' = NewCall
    /\ failed' = FALSE
    /\ questions' = <<>>
    /\ cleaned' = <<>>
    /\ pc' = "get"
    /\ UNCHANGED <<s, parts, text, normalized, blocks>>
    /\ UNCHANGED <<strategy, pending, fetched, site, current, visited,
                   quiz_links, returned, saved>>

\* lines 308-313: the quiz page is fetched; a closed quiz returns None
GetQuiz ==
    /\ pc = "get"
    /\ \/ pc' = "attempt" /\ UNCHANGED <<quiz, failed, returned>>
       \/ /\ quiz' = [quiz EXCEPT !.closed = TRUE]
          /\ returned' = Append(returned, "None")
          /\ pc' = "returned"
          /\ UNCHANGED failed
       \/ /\ quiz' = [quiz EXCEPT !.raised = @ \cup {"get"}]
          /\ failed' = TRUE
          /\ returned' = Append(returned, "None")
          /\ pc' = "returned"
    /\ UNCHANGED <<s, parts, text, normalized, blocks, questions, cleaned>>
    /\ UNCHANGED <<strategy, pending, fetched, site, current, visited,
                   quiz_links, saved>>

\* lines 315-326: the start form, if any, is posted
StartAttempt ==
    /\ pc = "attempt"
    /\ \/ pc' = "pages" /\ UNCHANGED <<quiz, failed, returned>>
       \/ /\ quiz' = [quiz EXCEPT !.raised = @ \cup {"start"}]
          /\ failed' = TRUE
          /\ returned' = Append(returned, "None")
          /\ pc' = "returned"
    /\ UNCHANGED <<s, parts, text, normalized, blocks, questions, cleaned>>
    /\ UNCHANGED <<strategy, pending, fetched, site, current, visited,
                   quiz_links, saved>>

\* lines 329-379: the pages are fetched and extracted; a failed POST of a
\* 'next' form ends the navigation, any other failure ends the call
FetchPages ==
    /\ pc = "pages"
    /\ \E qs \in PageYields :
          \/ /\ questions' = qs
             /\ pc' = "write"
             /\ UNCHANGED <<quiz, failed, returned>>
          \/ /\ questions' = qs
             /\ quiz' = [quiz EXCEPT !.raised = @ \cup {"next"}]
             /\ failed' = TRUE
             /\ pc' = "write"
             /\ UNCHANGED returned
          \/ /\ questions' = qs
             /\ quiz' = [quiz EXCEPT !.raised = @ \cup {"page"}]
             /\ failed' = TRUE
             /\ returned' = Append(returned, "None")
             /\ pc' = "returned"
    /\ UNCHANGED <<s, parts, text, normalized, blocks, cleaned>>
    /\ UNCHANGED <<strategy, pending, fetched, site, current, visited,
                   quiz_links, saved>>

\* lines 381-395: the records are cleaned and written and the path returned,
\* unless the writing fails
WriteOrRaise ==
    /\ pc = "write"
    /\ \/ /\ cleaned' = clean_questions(questions)
          /\ returned' = Append(returned, "path")
          /\ UNCHANGED <<quiz, failed>>
       \/ /\ quiz' = [quiz EXCEPT !.raised = @ \cup {"write"}]
          /\ failed' = TRUE
          /\ returned' = Append(returned, "None")
          /\ UNCHANGED cleaned
    /\ pc' = "returned"
    /\ UNCHANGED <<s, parts, text, normalized, blocks, questions>>
    /\ UNCHANGED <<strategy, pending, fetched, site, current, visited,
                   quiz_links, saved>>

\* lines 426-430: main counts the quiz as saved if a path came back
CountQuiz ==
    /\ pc = "returned"
    /\ saved' = Counted(returned[Len(returned)], saved)
    /\ pc' = "main"
    /\ UNCHANGED <<s, parts, text, normalized, blocks, questions, cleaned>>
    /\ UNCHANGED <<strategy, pending, fetched, site, current, visited,
                   quiz, quiz_links, returned, failed>>

\* lines 420-422, 432: no link is left
Finish ==
    /\ pc = "main"
    /\ Len(returned) = quiz_links
    /\ pc' = "done"
    /\ UNCHANGED <<s, parts, text, normalized, blocks, questions, cleaned>>
    /\ UNCHANGED crawl

NextMain ==
    CallDownload \/ GetQuiz \/ StartAttempt \/ FetchPages \/ WriteOrRaise
        \/ CountQuiz \/ Finish

SpecMain == InitMain /\ [][NextMain]_vars

\* download_quiz of quizzes.py and download_moodle_resources.py called on
\* one quiz page
InitAttempt ==
    /\ pc = "view"
    /\ quiz \in QuizPages
    /\ returned = <<>> /\ failed = FALSE
    /\ strategy = "" /\ pending = <<>> /\ fetched = <<>>
    /\ site = <<>> /\ current = 0 /\ visited = {}
    /\ quiz_links = 0 /\ saved = 0
    /\ Idle

\* lines 39-66 (541-569): the quiz page is fetched; a saved quiz returns its
\* path, a closed one None
OpenQuiz ==
    /\ pc = "view"
    /\ \/ /\ quiz' = [quiz EXCEPT !.raised = @ \cup {"get"}]
          /\ failed' = TRUE
          /\ returned' = Append(returned, "None")
          /\ pc' = "returned"
       \/ /\ quiz.exists
          /\ returned' = Append(returned, "path")
          /\ pc' = "returned"
          /\ UNCHANGED <<quiz, failed>>
       \/ /\ ~quiz.exists /\ quiz.closed
          /\ returned' = Append(returned, "None")
          /\ pc' = "returned"
          /\ UNCHANGED <<quiz, failed>>
       \/ /\ ~quiz.exists /\ ~quiz.closed
          /\ pc' = "find"
          /\ UNCHANGED <<quiz, failed, returned>>
    /\ UNCHANGED <<s, parts, text, normalized, blocks, questions, cleaned>>
    /\ UNCHANGED <<strategy, pending, fetched, site, current, visited,
                   quiz_links, saved>>

\* lines 67-90 (571-594): the review of an attempt is fetched if its link is
\* found; otherwise the start form is looked for, and nothing but its
\* absence is acted upon
FindAttempt ==
    /\ pc = "find"
    /\ IF quiz.review_href # <<>> /\ ReviewPattern(quiz.file, quiz.review_href)
       THEN \/ /\ quiz' = [quiz EXCEPT !.attempt_page = "review"]
               /\ pc' = "read"
               /\ UNCHANGED <<failed, returned>>
            \/ /\ quiz' = [quiz EXCEPT !.raised = @ \cup {"review"}]
               /\ failed' = TRUE
               /\ returned' = Append(returned, "None")
               /\ pc' = "returned"
       ELSE IF quiz.form_action # <<>> /\ AttemptPattern(quiz.file, quiz.form_action)
       THEN /\ pc' = "read"
            /\ UNCHANGED <<quiz, failed, returned>>
       ELSE /\ returned' = Append(returned, "None")
            /\ pc' = "returned"
            /\ UNCHANGED <<quiz, failed>>
    /\ UNCHANGED <<s, parts, text, normalized, blocks, questions, cleaned>>
    /\ UNCHANGED <<strategy, pending, fetched, site, current, visited,
                   quiz_links, saved>>

\* lines 92-124 (596-634): the pages of attempt_page are extracted and
\* written; reading attempt_page raises when it was never assigned
ReadAttempt ==
    /\ pc = "read"
    /\ IF quiz.attempt_page = "unbound"
       THEN /\ quiz' = [quiz EXCEPT !.raised = @ \cup {"unbound"}]
            /\ returned' = Append(returned, "None")
            /\ UNCHANGED <<questions, cleaned, failed>>
       ELSE \E qs \in PageYields :
               \/ /\ questions' = qs
                  /\ cleaned' = qs
                  /\ returned' = Append(returned, "path")
                  /\ UNCHANGED <<quiz, failed>>
               \/ /\ questions' = qs
                  /\ quiz' = [quiz EXCEPT !.raised = @ \cup {"write"}]
                  /\ failed' = TRUE
                  /\ returned' = Append(returned, "None")
                  /\ UNCHANGED cleaned
    /\ pc' = "returned"
    /\ UNCHANGED <<s, parts, text, normalized, blocks>>
    /\ UNCHANGED <<strategy, pending, fetched, site, current, visited,
                   quiz_links, saved>>

NextAttempt == OpenQuiz \/ FindAttempt \/ ReadAttempt

SpecAttempt == InitAttempt /\ [][NextAttempt]_vars

(***************************************************************************)
(* Properties                                                              *)
(***************************************************************************)

\* the records of a list, as a set
Records(list) == {list[i] : i \in 1..Len(list)}

\* the elements of a list, as a set
Elems(list) == {list[i] : i \in 1..Len(list)}

NoDuplicates(list) == \A i, j \in 1..Len(list) : i # j => list[i] # list[j]

\* a list without the repeats of its elements, in first-seen order
RECURSIVE FirstSeen(_)
FirstSeen(list) ==
    IF list = <<>> THEN <<>>
    ELSE LET init == SubSeq(list, 1, Len(list) - 1)
             last == list[Len(list)]
         IN  IF In(last, init) THEN FirstSeen(init) ELSE Append(FirstSeen(init), last)

\* the elements of new that old does not hold, in the order of new
Fresh(old, new) ==
    LET NotInOld(a) == ~In(a, old) IN SelectSeq(new, NotInOld)

\* x holds a pagination annotation or an answer-introducing marker phrase
HasAnnotation(x) == \E i \in 1..Len(x) : PaginationAt(x, i) > 0 \/ MarkerAt(x, i)

\* C1: junk tokens never survive: once the quiz is saved, no answer of any
\* record of the final output is, case-insensitively, one of the six junk
\* tokens, whichever discovery or fallback path produced it.
C1_JunkNeverSurvives ==
    pc = "saved" =>
        \A r \in Records(cleaned) : \A a \in Elems(r.answers) : lower(a) \notin MergeJunk

\* C2 (as stated): two raw records with the same normalised question text Q
\* and answers A1, A2 give exactly one record, with question Q and answers
\* A1 followed by the elements of A2 that A1 does not hold.
C2_MergeRawLists ==
    (pc = "return" /\ Len(questions) = 2
        /\ _normalize(questions[1].question) = _normalize(questions[2].question)
        /\ _normalize(questions[1].question) # <<>>)
    => cleaned = << [ question |-> _normalize(questions[1].question),
                      answers  |-> questions[1].answers
                                     \o Fresh(questions[1].answers, questions[2].answers) ] >>

\* C2 (amended): two raw records with the same normalised question text Q
\* give exactly one record, whose question is Q in lower case and whose
\* answers are the cleaned A1 (each answer normalised, junk and tiny answers
\* dropped, repeats removed) followed by the cleaned answers of A2 that the
\* cleaned A1 does not hold, in the order of A2.
C2_MergeCleanedLists ==
    (pc = "return" /\ Len(questions) = 2
        /\ _normalize(questions[1].question) = _normalize(questions[2].question)
        /\ _normalize(questions[1].question) # <<>>)
    => LET n1 == NormOpts(questions[1].answers, <<>>)
           n2 == NormOpts(questions[2].answers, <<>>)
       IN  cleaned = << [ question |-> lower(_normalize(questions[1].question)),
                          answers  |-> n1 \o Fresh(n1, n2) ] >>

\* a merge of two records of one normalised text where the casing changes,
\* an answer is filtered and the second list brings one old and one new answer
C2_Witness ==
    /\ pc = "return" /\ Len(questions) = 2 /\ Len(cleaned) = 1
    /\ questions[1].question # questions[2].question
    /\ _normalize(questions[1].question) = _normalize(questions[2].question)
    /\ cleaned[1].question # _normalize(questions[1].question)
    /\ questions[1].answers = <<T_NumLan, T_end>>
    /\ questions[2].answers = <<T_LAN, T_WAN>>
    /\ cleaned[1].answers = <<T_LAN, T_WAN>>

\* C3 (as stated): page 1 {'Q1', ['A','B']} followed by page 2
\* {'q1 ', ['B','C']} gives exactly one record {'q1', ['A','B','C']}.
C3_SingleLettersMerged ==
    (pc = "return"
        /\ questions = << [question |-> <<"Q", "1">>, answers |-> <<T_A, T_B>>],
                          [question |-> <<"q", "1", " ">>, answers |-> <<T_B, T_C>>] >>)
    => cleaned = << [question |-> <<"q", "1">>, answers |-> <<T_A, T_B, T_C>>] >>

\* an answer clean_questions keeps: not empty once normalised, no junk
\* token, longer than 2 characters or a 2-character uppercase string
KeptAnswer(a) ==
    /\ _normalize(a) # <<>>
    /\ lower(_normalize(a)) \notin CleanJunk
    /\ (Len(_normalize(a)) > 2 \/ (Len(_normalize(a)) = 2 /\ isupper(_normalize(a))))

\* the kept answers of a list, normalised
RECURSIVE KeptOf(_)
KeptOf(list) ==
    IF list = <<>> THEN <<>>
    ELSE (IF KeptAnswer(Head(list)) THEN <<_normalize(Head(list))>> ELSE <<>>)
           \o KeptOf(Tail(list))

\* C3 (amended): two records whose question texts differ only in letter case
\* and surrounding whitespace, and are not empty once normalised, are merged
\* into a single record, whose question is the lower-cased normalised text and whose answers are the
\* first-seen-order union of the answers kept from both lists; a single
\* letter, uppercase or not, is never kept, so that the example gives
\* {'q1', []}.
C3_KeptAnswersMerged ==
    (pc = "return" /\ Len(questions) = 2
        /\ lower(strip(questions[1].question)) = lower(strip(questions[2].question))
        /\ _normalize(questions[1].question) # <<>>)
    => /\ cleaned = << [ question |-> lower(_normalize(questions[1].question)),
                         answers  |-> FirstSeen(KeptOf(questions[1].answers
                                                         \o questions[2].answers)) ] >>
       /\ \A a \in Elems(cleaned[1].answers) : Len(a) >= 2
       /\ (questions[1].answers = <<T_A, T_B>> /\ questions[2].answers = <<T_B, T_C>>)
              => cleaned[1].answers = <<>>

\* two texts that differ in case and whitespace, merged with answers kept
C3_Witness ==
    /\ pc = "return"
    /\ questions = << [question |-> <<"Q", "1">>, answers |-> <<T_LAN, T_WAN>>],
                      [question |-> <<"q", "1", " ">>, answers |-> <<T_WAN, T_MAN>>] >>
    /\ cleaned = << [question |-> <<"q", "1">>, answers |-> <<T_LAN, T_WAN, T_MAN>>] >>

\* C4: normalisation is idempotent: normalising what _normalize returned
\* changes nothing.
C4_NormalizeIdempotent ==
    pc = "return" => _normalize(normalized) = normalized

\* some rule of the cascade yields more than one part
SplitMatched(x) ==
    \E rule \in {"linebreak", "delimiter", "numbered"} : Len(RuleParts(rule, x)) > 1

\* the parts of the first rule that yields more than one part
WinningParts(x) ==
    IF Len(RuleParts("linebreak", x)) > 1 THEN RuleParts("linebreak", x)
    ELSE IF Len(RuleParts("delimiter", x)) > 1 THEN RuleParts("delimiter", x)
    ELSE RuleParts("numbered", x)

\* C5 (as stated): for every non-empty input the segmenter returns at least
\* one element, on every path.
C5_NeverEmpty ==
    (pc = "return" /\ s # <<>>) => Len(parts) >= 1

\* C5 (amended): for every non-empty input the segmenter returns at least
\* one element, unless a split rule matched and every part it yielded is a
\* junk token, punctuation only, or at most 2 characters long; the unsplit
\* fallback always returns one element.
C5_EmptyOnlyWhenAllDropped ==
    (pc = "return" /\ s # <<>> /\ parts = <<>>)
    => /\ SplitMatched(s)
       /\ \A p \in Elems(WinningParts(s)) :
             lower(p) \in MergeJunk \/ IsPunctuation(p) \/ Len(p) <= 2

\* a non-empty input for which the segmenter returns nothing
C5_Witness ==
    pc = "return" /\ s # <<>> /\ SplitMatched(s) /\ parts = <<>>

\* the precondition of C6: no line break, no explicit delimiter, and no
\* digit-')' pattern that yields more than one part
NoDelimiterIn(x) ==
    /\ \A i \in 1..Len(x) : x[i] \notin {"\n", "\r", ";", "|", "bullet", "endash", "emdash"}
    /\ \A i \in 1..(Len(x) - 1) :
          /\ ~(x[i] \in Space /\ x[i + 1] \in Space)
          /\ ~(x[i] = "-" /\ x[i + 1] = "-")
    /\ Len(RuleParts("numbered", x)) <= 1

\* C6: on the no-split path the segmenter returns exactly the one-element
\* sequence holding the trimmed input.
C6_NoSplitKeepsInput ==
    (pc = "return" /\ s # <<>> /\ NoDelimiterIn(s)) => parts = <<strip(s)>>

\* an input without delimiter that the trimming changes
C6_Witness ==
    /\ pc = "return" /\ s # <<>> /\ NoDelimiterIn(s)
    /\ strip(s) # s /\ strip(s) # <<>>
    /\ parts = <<strip(s)>>

\* C7 (as stated): whatever the segmenter returns has been passed through
\* the repair, the single-part fallback included.
C7_AlwaysRepaired ==
    (pc = "return" /\ s # <<>>)
    => parts = _merge_short_fragments(
                   IF SplitMatched(s) THEN WinningParts(s) ELSE StripNonEmpty(<<s>>))

\* what the repair guarantees of its result: no junk token, no repeat, no
\* element of one character unless uppercase, and no short fragment beside
\* another element
Repaired(list) ==
    /\ \A p \in Elems(list) : lower(p) \notin MergeJunk
    /\ NoDuplicates(list)
    /\ \A p \in Elems(list) : Len(p) <= 1 => isupper(p)
    /\ \A p \in Elems(list) : IsShortFragment(p) => Len(list) = 1

\* C7 (amended): the repair is applied to the segmenter's result when a
\* split rule yields more than one part; on the single-part fallback path
\* the trimmed input is returned as it is, without repair.
C7_RepairedOnlyWhenSplit ==
    (pc = "return" /\ s # <<>>)
    => IF SplitMatched(s) THEN Repaired(parts) ELSE parts = <<strip(s)>>

\* a lone junk token that the fallback path returns unrepaired
C7_Witness ==
    /\ pc = "return" /\ ~SplitMatched(s)
    /\ lower(strip(s)) \in MergeJunk
    /\ parts = <<strip(s)>>

\* the key clean_questions gives a raw question text
KeyOf(q) == lower(_normalize(q))

\* C8: in every record extract_questions produced and in every record of
\* the clean_questions output, the answers hold no two equal strings.
C8_NoDuplicateAnswers ==
    /\ \A r \in Records(questions) : NoDuplicates(r.answers)
    /\ \A r \in Records(cleaned) : NoDuplicates(r.answers)

\* two pages give records of one key that share an answer, one block
\* repeats a candidate, and the output holds the one merged record
C8_Witness ==
    /\ pc = "saved" /\ Len(questions) = 2 /\ Len(cleaned) = 1
    /\ KeyOf(questions[1].question) = KeyOf(questions[2].question)
    /\ Elems(questions[1].answers) \cap Elems(questions[2].answers) # {}
    /\ \E i \in 1..Len(blocks) : ~NoDuplicates(blocks[i].labels)
    /\ Len(cleaned[1].answers) >= 2

\* the answer candidates the markup of a block gives (labels, else list
\* items, else answer-class elements)
MarkupCandidates(qb) ==
    IF NonEmpty(qb.labels) # <<>> THEN NonEmpty(qb.labels)
    ELSE IF NonEmpty(qb.items) # <<>> THEN NonEmpty(qb.items)
    ELSE NonEmpty(qb.answer_tags)

\* three uppercase letters
IsAcronym3(a) == Len(a) = 3 /\ \A i \in 1..Len(a) : a[i] \in Upper

\* no answer of length 2 or less unless all uppercase, and no single letter
ShortOnlyIfAcronym(list) ==
    \A r \in Records(list) : \A a \in Elems(r.answers) :
        /\ Len(a) <= 2 => isupper(a)
        /\ Len(a) >= 2

\* the 3-letter acronyms a block gives as answers, END left out or not, are
\* in its extracted record and, once saved, in the output record of its key
AcronymsKept(withEnd) ==
    \A i \in 1..Len(blocks) : \A a \in Elems(MarkupCandidates(blocks[i])) :
        (IsAcronym3(a) /\ BlockQuestion(blocks[i]) # <<>>)
        => /\ \E r \in Records(questions) :
                 r.question = BlockQuestion(blocks[i]) /\ In(a, r.answers)
           /\ (pc = "saved" /\ KeyOf(BlockQuestion(blocks[i])) # <<>>
                 /\ (withEnd \/ a # T_END))
              => \E r \in Records(cleaned) :
                    r.question = KeyOf(BlockQuestion(blocks[i])) /\ In(a, r.answers)

C10_QuestionWithoutAnnotation ==
    /\ \A r \in Records(questions) : ~HasAnnotation(r.question)
    /\ \A r \in Records(cleaned) : ~HasAnnotation(r.question)

\* a block that offers no answer at all: no label, list item or answer
\* element with text, and a one-line prompt without marker phrase or
\* true/false cue
NoAnswerSource(qb) ==
    /\ NonEmpty(qb.labels) = <<>>
    /\ NonEmpty(qb.items) = <<>>
    /\ NonEmpty(qb.answer_tags) = <<>>
    /\ ~HasMarker(RawQtext(qb))
    /\ ~HasTrueFalseCue(RawQtext(qb))
    /\ \A i \in 1..Len(RawQtext(qb)) : RawQtext(qb)[i] # "\n"

\* C11 as stated: every extracted record with an empty answers list is
\* retained, with its empty answers list, in the output of clean_questions.
C11_EmptyRecordRetained ==
    pc = "cleaned" =>
        \A i \in 1..Len(questions) :
            questions[i].answers = <<>> =>
                \E j \in 1..Len(cleaned) : cleaned[j].answers = <<>>

\* C11, amended: the extractor returns at most one record per block and none
\* for a page without blocks; a block with a prompt but no answer source
\* yields exactly one record, with an empty answers list; clean_questions
\* retains a record with an empty answers list exactly when its question text
\* is not empty after normalization, and discards it otherwise.
C11_EmptyRecordRetainedIfKeyed ==
    /\ pc # "page" => Len(questions) <= Len(blocks)
    /\ (pc # "page" /\ blocks # <<>> /\ NoAnswerSource(blocks[1]) /\ RawQtext(blocks[1]) # <<>>) =>
           /\ Len(questions) = 1
           /\ questions[1].question # <<>>
           /\ questions[1].answers = <<>>
    /\ pc = "cleaned" =>
           \A i \in 1..Len(questions) :
               questions[i].answers = <<>> =>
                   IF KeyOf(questions[i].question) = <<>>
                   THEN cleaned = <<>>
                   ELSE cleaned = << [question |-> KeyOf(questions[i].question), answers |-> <<>>] >>

C11_Witness ==
    /\ pc = "cleaned"
    /\ blocks # <<>>
    /\ NoAnswerSource(blocks[1])
    /\ questions = << [question |-> T_Quoi, answers |-> <<>>] >>
    /\ cleaned = << [question |-> lower(T_Quoi), answers |-> <<>>] >>

\* the answers of a block that survive the final cleaning
Survivors(qb) ==
    FinalCleaning(Resplit(DiscoverAnswers(qb, TailPart(RawQtext(qb)))), <<>>)

\* C12: when no answer of a block survives the filtering and its prompt
\* holds Vrai or Faux as a whole word, in any case, the record's answers are
\* exactly VRAI, FAUX, even when the prompt has further lines; when an answer
\* survives, the record's answers are the surviving answers and the pair is
\* neither added nor substituted; without the cue the pair is not produced.
C12_TrueFalseFallback ==
    (pc # "page" /\ blocks # <<>> /\ questions # <<>>) =>
        LET qb  == blocks[1]
            raw == RawQtext(qb)
        IN  /\ (Survivors(qb) = <<>> /\ HasTrueFalseCue(raw)) =>
                   questions[1].answers = TrueFalse
            /\ (NonEmpty(qb.labels) = <<>> /\ NonEmpty(qb.items) = <<>>
                  /\ NonEmpty(qb.answer_tags) = <<>> /\ ~HasMarker(raw)
                  /\ HasTrueFalseCue(raw)) =>
                   questions[1].answers = TrueFalse
            /\ Survivors(qb) # <<>> => questions[1].answers = Survivors(qb)
            /\ (Survivors(qb) = <<>> /\ ~HasTrueFalseCue(raw)) =>
                   questions[1].answers # TrueFalse

C12_Witness ==
    /\ pc = "extracted"
    /\ blocks # <<>>
    /\ blocks[1].qtext = <<T_VraiFaux, T_LAN>>
    /\ blocks[1].labels = <<T_A, T_ab>>
    /\ blocks[1].items = <<>>
    /\ blocks[1].answer_tags = <<>>
    /\ questions # <<>>
    /\ questions[1].answers = TrueFalse

\* the keys of the raw records whose normalised question text is not empty,
\* in input order
RECURSIVE KeysOf(_)
KeysOf(qs) ==
    IF qs = <<>> THEN <<>>
    ELSE (IF KeyOf(Head(qs).question) # <<>> THEN <<KeyOf(Head(qs).question)>> ELSE <<>>)
           \o KeysOf(Tail(qs))

\* the output of clean_questions once the first k raw records are consumed
CleanedAfter(k) ==
    IF k = Len(questions) THEN cleaned ELSE clean_questions(SubSeq(questions, 1, k))

\* C13: the output of clean_questions holds exactly one record per distinct
\* key among the raw records whose normalised question text is not empty, in
\* the order in which the keys first occur; a later occurrence of a key
\* neither reorders nor removes a record or an answer: it only appends, to
\* the record of its key, its kept answers that the record does not hold
\* yet, in their own order.
C13_OneRecordPerKeyInOrder ==
    pc = "return" =>
        /\ [i \in 1..Len(cleaned) |-> cleaned[i].question] = FirstSeen(KeysOf(questions))
        /\ \A k \in 1..Len(questions) :
              LET before == CleanedAfter(k - 1)
                  after  == CleanedAfter(k)
                  key    == KeyOf(questions[k].question)
                  new    == KeptOf(questions[k].answers)
              IN  /\ Len(before) <= Len(after)
                  /\ \A i \in 1..Len(before) :
                        /\ after[i].question = before[i].question
                        /\ after[i].answers =
                              before[i].answers
                                \o (IF before[i].question = key /\ key # <<>>
                                    THEN FirstSeen(Fresh(before[i].answers, new))
                                    ELSE <<>>)

\* a key met again after another key: its record stays first and gains the
\* one answer it did not hold
C13_Witness ==
    /\ pc = "return"
    /\ Len(questions) = 3
    /\ questions[1] = [question |-> <<"Q", "1">>, answers |-> <<T_LAN, T_WAN>>]
    /\ questions[2].question = T_QUOI
    /\ questions[3] = [question |-> <<"q", "1", " ">>, answers |-> <<T_WAN, T_MAN>>]
    /\ Len(cleaned) = 2
    /\ cleaned[1] = [question |-> <<"q", "1">>, answers |-> <<T_LAN, T_WAN, T_MAN>>]

\* C14: a raw record whose normalised question text is empty (a blank text
\* or a bare ordinal prefix such as '1.') creates no output record and
\* contributes none of its answers: the output is the output for the other
\* records alone, every output question is non-empty, and every output
\* answer is a kept answer of an input record with the same, non-empty key.
C14_EmptyQuestionDiscarded ==
    pc = "return" =>
        /\ \A i \in 1..Len(cleaned) : cleaned[i].question # <<>>
        /\ \A i \in 1..Len(cleaned) :
              \A a \in Elems(cleaned[i].answers) :
                  \E k \in 1..Len(questions) :
                      /\ KeyOf(questions[k].question) = cleaned[i].question
                      /\ a \in Elems(KeptOf(questions[k].answers))
        /\ Len(cleaned) = Cardinality(Elems(KeysOf(questions)))
        /\ (\A k \in 1..Len(questions) : _normalize(questions[k].question) = <<>>) =>
               cleaned = <<>>

\* a record with the question '1.' and two good answers next to a record
\* with a question: only the latter is in the output
C14_Witness ==
    /\ pc = "return"
    /\ Len(questions) = 2
    /\ questions[1] = [question |-> T_Num, answers |-> <<T_LAN, T_WAN>>]
    /\ questions[2] = [question |-> T_QUOI, answers |-> <<T_WAN, T_MAN>>]
    /\ cleaned = << [question |-> lower(strip(T_QUOI)), answers |-> <<T_WAN, T_MAN>>] >>

\* the answers of a record whose candidates are cands: the candidates after
\* the final cleaning, or else what the fallbacks make of the prompt
Outcome(cands, raw) ==
    IF FinalCleaning(Resplit(cands), <<>>) # <<>> THEN FinalCleaning(Resplit(cands), <<>>)
    ELSE IF HasTrueFalseCue(raw) THEN TrueFalse
    ELSE LineFallback(raw)

\* C15: the answer candidates come from the first source that yields any:
\* the label texts of the radio/checkbox inputs if there is one that is not
\* empty, and then no list item, answer element or marker tail is used; the
\* list items only if the labels yield nothing; the answer elements only if
\* labels and list items yield nothing; the segmented marker tail only if
\* all three yield nothing.
C15_FirstSourceWins ==
    (pc # "page" /\ blocks # <<>> /\ questions # <<>>) =>
        LET qb   == blocks[1]
            raw  == RawQtext(qb)
            L    == NonEmpty(qb.labels)
            I    == NonEmpty(qb.items)
            A    == NonEmpty(qb.answer_tags)
            tail == TailPart(raw)
            got  == questions[1].answers
        IN  /\ L # <<>> => got = Outcome(L, raw)
            /\ (L = <<>> /\ I # <<>>) => got = Outcome(I, raw)
            /\ (L = <<>> /\ I = <<>> /\ A # <<>>) => got = Outcome(A, raw)
            /\ (L = <<>> /\ I = <<>> /\ A = <<>> /\ tail # <<>>) =>
                   got = Outcome(_split_concatenated_options(TailClean(tail)), raw)
            /\ (L = <<>> /\ I = <<>> /\ A = <<>> /\ tail = <<>>) => got = Outcome(<<>>, raw)

\* a block with labels, list items, an answer element and a marker tail:
\* the labels alone make the answers
C15_Witness ==
    /\ pc = "extracted"
    /\ blocks # <<>>
    /\ blocks[1].labels = <<T_LAN, T_WAN>>
    /\ blocks[1].items = <<T_MAN, T_LAN>>
    /\ blocks[1].answer_tags = <<T_Reseau, T_agrave>>
    /\ blocks[1].qtext = <<T_QuoiTail>>
    /\ questions # <<>>
    /\ questions[1].answers = <<T_LAN, T_WAN>>

\* a part of at most 2 characters that is not all uppercase
ShortNotUpper(p) == Len(p) <= 2 /\ ~isupper(p)

\* a part the repair retains as it comes: longer than 2 characters, no junk
\* token, not made of punctuation only
PlainPart(p) == Len(p) > 2 /\ lower(p) \notin MergeJunk /\ ~IsPunctuation(p)

\* x occurs in e as a run of characters
Occurs(x, e) == \E k \in 1..(Len(e) - Len(x) + 1) : SubSeq(e, k, k + Len(x) - 1) = x

\* f occurs in e after exactly one space that follows other text
AppendedIn(e, f) ==
    \E k \in 2..(Len(e) - Len(f)) :
        /\ e[k] = " " /\ e[k - 1] # " "
        /\ SubSeq(e, k + 1, k + Len(f)) = f
        /\ (k + Len(f) = Len(e) \/ e[k + Len(f) + 1] = " ")

\* C16: in the repair, a part of at most 2 characters that is not all
\* uppercase and comes after a retained part is appended, with one
\* separating space, to the previous retained part and is no element of its
\* own: right after a retained part P it gives an element holding 'P f', and
\* 'Réseau' followed by 'à' gives the one element 'Réseau à'.
C16_ShortAppendedToPrevious ==
    (pc = "return" /\ SplitMatched(s)) =>
        LET W == WinningParts(s)
        IN  /\ \A i \in 2..Len(W) :
                  (ShortNotUpper(W[i]) /\ \E j \in 1..(i - 1) : PlainPart(W[j])) =>
                      /\ \E n \in 1..Len(parts) : AppendedIn(parts[n], W[i])
                      /\ W[i] \notin Elems(parts)
                      /\ PlainPart(W[i - 1]) =>
                             \E n \in 1..Len(parts) :
                                 Occurs(W[i - 1] \o <<" ">> \o W[i], parts[n])
            /\ W = <<T_Reseau, T_agrave>> => parts = <<T_ReseauA>>

C16_Witness ==
    /\ pc = "return"
    /\ WinningParts(s) = <<T_Reseau, T_agrave>>
    /\ parts = <<T_ReseauA>>

\* 'à' comes right after 'Réseau' in a list of candidates
FragmentAfterReseau(list) ==
    \E i \in 1..(Len(list) - 1) : list[i] = T_Reseau /\ list[i + 1] = T_agrave

\* the candidates a block offers as separate elements: the texts of its
\* labels, or else of its list items, or else of its answer elements
SeparateCandidates(qb) ==
    IF NonEmpty(qb.labels) # <<>> THEN NonEmpty(qb.labels)
    ELSE IF NonEmpty(qb.items) # <<>> THEN NonEmpty(qb.items)
    ELSE NonEmpty(qb.answer_tags)

\* the parts the segmenter cuts the marker tail of a block into, when the
\* block has no separate candidates
TailCandidates(qb) ==
    LET tail == TailClean(TailPart(RawQtext(qb)))
    IN  IF SeparateCandidates(qb) = <<>> /\ TailPart(RawQtext(qb)) # <<>> /\ SplitMatched(tail)
        THEN WinningParts(tail) ELSE <<>>

\* the answers of the block's record, after extraction and after cleaning
FinalAnswers ==
    IF pc = "cleaned" THEN cleaned[1].answers ELSE questions[1].answers

HasRecord ==
    /\ pc # "page" /\ blocks # <<>> /\ questions # <<>>
    /\ pc = "cleaned" => cleaned # <<>>

LinesOf(x) == StripNonEmpty(splitlines(strip(x)))

\* every part the repair retains as it comes is found, whole, in an element
\* of the result
PlainPartsIntact(ps, result) ==
    \A i \in 1..Len(ps) :
        PlainPart(ps[i]) => \E n \in 1..Len(result) : Occurs(ps[i], result[n])

\* C18: the rules of the segmenter are tried in the order line breaks,
\* explicit delimiters, digit-')' markers, and the first rule that yields
\* more than one non-empty part decides: the result is the repair of that
\* rule's parts, and no later rule is applied to the string or to the parts,
\* so that a line holding ';' or '1)' stays whole when the line breaks split
\* the string, and a part holding '1)' stays whole when the delimiters do.
C18_FirstRuleDecides ==
    pc = "return" =>
        LET lines == LinesOf(s)
            dl    == RuleParts("delimiter", s)
            nb    == RuleParts("numbered", s)
        IN  /\ Len(lines) > 1 =>
                   /\ parts = _merge_short_fragments(lines)
                   /\ PlainPartsIntact(lines, parts)
            /\ (Len(lines) <= 1 /\ Len(dl) > 1) =>
                   /\ parts = _merge_short_fragments(dl)
                   /\ PlainPartsIntact(dl, parts)
            /\ (Len(lines) <= 1 /\ Len(dl) <= 1 /\ Len(nb) > 1) =>
                   parts = _merge_short_fragments(nb)

\* 'LAN;WAN' + line break + 'LAN' is split on the line break only
C18_Witness ==
    /\ pc = "return"
    /\ s = T_LanSemiWan \o <<"\n">> \o T_LAN
    /\ Len(RuleParts("delimiter", s)) > 1
    /\ parts = <<T_LanSemiWan, T_LAN>>

\* a part the repair drops without a trace: a junk token, or punctuation
\* only and longer than 2 characters
DroppedAlone(p) == lower(p) \in MergeJunk \/ (IsPunctuation(p) /\ Len(p) > 2)

\* i is the first part of ps that is not dropped without a trace: no part
\* is retained before it
NothingRetainedBefore(ps, i) == \A j \in 1..(i - 1) : DroppedAlone(ps[j])

\* the look-ahead half of C19: a short part with no retained part before it
\* and a raw part after it is prepended to that part with one space, and
\* the two are retained as one element, the first of the result
LookAheadMerge(W, result) ==
    \A i \in 1..(Len(W) - 1) :
        (ShortNotUpper(W[i]) /\ NothingRetainedBefore(W, i)
           /\ ~IsPunctuation(W[i] \o <<" ">> \o W[i + 1])) =>
            /\ result # <<>>
            /\ SubSeq(result[1], 1, Len(W[i]) + 1 + Len(W[i + 1])) = W[i] \o <<" ">> \o W[i + 1]
            /\ W[i] \notin Elems(result)

\* C19 as stated: a short part with neither a retained part before it nor a
\* raw part after it is kept as it is and is in the returned sequence.
C19_LoneShortFragmentReturned ==
    (pc = "return" /\ SplitMatched(s)) =>
        LET W == WinningParts(s)
        IN  /\ LookAheadMerge(W, parts)
            /\ (ShortNotUpper(W[Len(W)]) /\ NothingRetainedBefore(W, Len(W))) =>
                   parts = <<W[Len(W)]>>

\* C19, amended: a part of at most 2 characters that is not all uppercase
\* and has no retained part before it is prepended, with one space, to the
\* next raw part, and the two are processed as one part; with neither a
\* retained part before it nor a raw part after it, it is kept by the merge
\* loop, and the final pass then returns it if it has 2 characters and drops
\* it if it has 1, so that the repair returns nothing.
C19_LoneShortFragmentOfTwoReturned ==
    (pc = "return" /\ SplitMatched(s)) =>
        LET W == WinningParts(s)
        IN  /\ LookAheadMerge(W, parts)
            /\ (ShortNotUpper(W[Len(W)]) /\ NothingRetainedBefore(W, Len(W))) =>
                   parts = IF Len(W[Len(W)]) = 2 THEN <<W[Len(W)]>> ELSE <<>>

\* 'end' + line break + 'ab': the lone fragment of 2 characters is returned
C19_Witness ==
    /\ pc = "return"
    /\ WinningParts(s) = <<T_end, T_ab>>
    /\ parts = <<T_ab>>

\* a list of parts without its punctuation-only parts
RECURSIVE WithoutPunctuation(_)
WithoutPunctuation(ps) ==
    IF ps = <<>> THEN <<>>
    ELSE (IF IsPunctuation(Head(ps)) THEN <<>> ELSE <<Head(ps)>>)
           \o WithoutPunctuation(Tail(ps))

\* C20: in the repair, a part made of punctuation or symbol characters only
\* is dropped whatever its length: it is no element of the result and gives
\* none of its characters to another element, so that the result is the
\* repair of the parts without it.
C20_PunctuationDropped ==
    (pc = "return" /\ SplitMatched(s)) =>
        LET W == WinningParts(s)
        IN  /\ \A i \in 1..Len(W) : IsPunctuation(W[i]) => W[i] \notin Elems(parts)
            /\ parts = _merge_short_fragments(WithoutPunctuation(W))

\* an element the final pass of the repair lets through
LongEnough(e) == Len(e) >= 2 \/ (Len(e) = 1 /\ isupper(e))

\* C21: the sequence the repair returns holds no two equal strings, holds
\* the retained parts in the order in which they were first retained, and
\* holds no element of length 1 or less except an all-uppercase one.
C21_RepairResultInvariants ==
    (pc = "return" /\ SplitMatched(s)) =>
        LET retained == MergeLoop(WinningParts(s), 1, <<>>)
        IN  /\ NoDuplicates(parts)
            /\ \A n \in 1..Len(parts) : LongEnough(parts[n])
            /\ parts = FirstSeen(SelectSeq(retained, LongEnough))

\* 'LAN' + line break + 'LAN': the repeated part is returned once
C21_Witness ==
    /\ pc = "return"
    /\ WinningParts(s) = <<T_LAN, T_LAN>>
    /\ parts = <<T_LAN>>

\* x holds a marker phrase
HoldsMarker(x) == \E i \in 1..Len(x) : MarkerAt(x, i)

\* the block's answers come from its marker tail
AnswersFromTail(qb) ==
    /\ SeparateCandidates(qb) = <<>>
    /\ TailPart(RawQtext(qb)) # <<>>
    /\ Survivors(qb) # <<>>

\* C22: when the answers of a block are taken from the marker tail, the
\* marker phrase and its introductory wording are stripped before the
\* segmentation, whichever marker it is: no answer made from the tail holds
\* a marker phrase or the ':' that ends the introduction.
C22_MarkerStrippedFromTail ==
    (pc # "page" /\ blocks # <<>> /\ questions # <<>> /\ AnswersFromTail(blocks[1])) =>
        \A n \in 1..Len(questions[1].answers) :
            /\ ~HoldsMarker(questions[1].answers[n])
            /\ \A i \in 1..Len(questions[1].answers[n]) : questions[1].answers[n][i] # ":"

\* c holds a UI-affordance phrase as a run of characters, in any case
HoldsPhrase(c) == \E i \in 1..Len(c) : \E w \in ExtractJunk : At(c, i, w, TRUE)

\* c holds a UI-affordance phrase between two word boundaries
HoldsPhraseAsWords(c) == \E i \in 1..Len(c) : \E w \in ExtractJunk : WordAt(c, i, w)

\* c without the first phrase it holds, trimmed
Remainder(c) ==
    LET i == CHOOSE k \in 1..Len(c) :
                 /\ \E w \in ExtractJunk : At(c, k, w, TRUE)
                 /\ \A j \in 1..(k - 1) : \A w \in ExtractJunk : ~At(c, j, w, TRUE)
        w == CHOOSE v \in ExtractJunk : At(c, i, v, TRUE)
    IN  strip(SubSeq(c, 1, i - 1) \o From(c, i + Len(w)))

\* the page's block has several labels, which are its candidates as they are
SeveralLabels ==
    /\ pc # "page" /\ blocks # <<>> /\ questions # <<>>
    /\ Len(NonEmpty(blocks[1].labels)) > 1

\* C23 as stated: a UI-affordance phrase is removed from an answer wherever
\* it occurs in it, and the remainder is kept as the answer whenever it is
\* not empty.
C23_RemainderKeptIfNonEmpty ==
    SeveralLabels =>
        \A c \in Elems(NonEmpty(blocks[1].labels)) :
            HoldsPhrase(c) =>
                /\ c \notin Elems(questions[1].answers)
                /\ Remainder(c) # <<>> => Remainder(c) \in Elems(questions[1].answers)

\* C23, amended: a UI-affordance phrase is removed from an answer where it
\* stands between word boundaries, and the remainder is kept as the answer
\* when it is longer than 2 characters or is 2 uppercase characters; the
\* answer is rejected when the remainder is empty or shorter than that; a
\* phrase glued to a word is not removed and the answer is kept whole.
C23_RemainderKeptIfLongEnough ==
    SeveralLabels =>
        \A c \in Elems(NonEmpty(blocks[1].labels)) :
            HoldsPhrase(c) =>
                IF HoldsPhraseAsWords(c)
                THEN /\ c \notin Elems(questions[1].answers)
                     /\ IF Len(Remainder(c)) > 2
                             \/ (Len(Remainder(c)) = 2 /\ isupper(Remainder(c)))
                        THEN Remainder(c) \in Elems(questions[1].answers)
                        ELSE Remainder(c) \notin Elems(questions[1].answers)
                ELSE c \in Elems(questions[1].answers)

\* 'LAN Clear selection' gives 'LAN', 'ab Clear selection' gives nothing
C23_Witness ==
    /\ pc = "extracted"
    /\ blocks # <<>>
    /\ blocks[1].labels = <<T_LanClear, T_abClear>>
    /\ questions # <<>>
    /\ questions[1].answers = <<T_LAN>>

\* the trimmed non-empty lines of the raw prompt text
PromptLines(qb) == StripNonEmpty(splitlines(RawQtext(qb)))

\* the lines of a list that are longer than 2 characters
LongerThanTwo(lines) == LET Long(x) == Len(x) > 2 IN SelectSeq(lines, Long)

\* C24: when a block has no answer left, the true/false fallback does not
\* apply and its raw prompt text has several lines, the record's question is
\* line 1 of the raw prompt text and its answers are the following lines
\* longer than 2 characters, in order.
C24_LineFallback ==
    (pc # "page" /\ blocks # <<>>
        /\ Survivors(blocks[1]) = <<>>
        /\ ~HasTrueFalseCue(RawQtext(blocks[1]))
        /\ Len(PromptLines(blocks[1])) > 1) =>
        /\ Len(questions) = 1
        /\ questions[1].question = PromptLines(blocks[1])[1]
        /\ questions[1].answers = FirstSeen(LongerThanTwo(Tail(PromptLines(blocks[1]))))

\* the text of the raw prompt before its first marker phrase, trimmed; the
\* whole raw prompt when it holds no marker
BeforeMarker(raw) ==
    IF HoldsMarker(raw)
    THEN strip(SubSeq(raw, 1, (CHOOSE i \in 1..Len(raw) :
                                  MarkerAt(raw, i) /\ \A j \in 1..(i - 1) : ~MarkerAt(raw, j)) - 1))
    ELSE raw

\* the question text determined for a block: the prompt text before the
\* marker, else the text of the heading element if the block has one, else
\* the first line of the raw text
DeterminedQuestion(qb) ==
    LET raw == RawQtext(qb)
    IN  IF BeforeMarker(raw) # <<>> THEN BeforeMarker(raw)
        ELSE IF qb.has_heading THEN Join(StripNonEmpty(qb.heading), <<" ">>)
        ELSE IF raw # <<>> THEN PromptLines(qb)[1]
        ELSE <<>>

Ascending(list) == \A i, j \in 1..Len(list) : i < j => list[i] < list[j]

\* the records of the pages of a list, page after page
RECURSIVE RecordsOf(_)
RecordsOf(list) ==
    IF list = <<>> THEN <<>> ELSE PageRecords(Head(list)) \o RecordsOf(Tail(list))

\* C26: whatever the number of pages of the attempt and whichever way
\* download_quiz finds them (the count of 'page N sur M', the page=
\* parameters, the sorted page URLs), the pages are fetched in strictly
\* ascending page-index order and the record list is their records in that
\* order
C26_PagesInIndexOrder ==
    /\ Ascending(fetched)
    /\ pc \in {"pages", "saved"} => questions = RecordsOf(fetched)

\* 3 characters, all uppercase
UpperThree(x) == Len(x) = 3 /\ isupper(x)

\* 2 characters, not all uppercase
LowerTwo(x) == Len(x) = 2 /\ ~isupper(x)

\* the string has a neighbour to merge into: a part that was not dropped
\* before it, or a part after it
HasNeighbour(x, W) ==
    \E i \in 1..Len(W) :
        W[i] = x /\ \A k \in 1..Len(W) : (W[k] = x => k >= i)
        /\ (i < Len(W) \/ ~NothingRetainedBefore(W, i))

\* the string is part of a longer element, one space apart from the rest
MergedIn(x, result) ==
    \E n \in 1..Len(result) :
        Occurs(<<" ">> \o x, result[n]) \/ Occurs(x \o <<" ">>, result[n])

\* the three components on a 3-character all-uppercase string; junk tells
\* whether the junk token 'end' is excepted
AcronymRetained(junk) ==
    UpperThree(text) =>
        /\ (SplitMatched(s) /\ ~(junk /\ text = T_END)) =>
               \E n \in 1..Len(parts) : Occurs(text, parts[n])
        /\ (SplitMatched(s) /\ junk /\ text = T_END) => ~In(text, parts)
        /\ In(text, questions[1].answers)
        /\ ~(junk /\ text = T_END) => In(text, cleaned[1].answers)
        /\ (junk /\ text = T_END) => ~In(text, cleaned[1].answers)

\* the three components on a 2-character string that is not all uppercase
ShortNotRetained ==
    LowerTwo(text) =>
        /\ ~In(text, questions[1].answers)
        /\ ~In(text, cleaned[1].answers)
        /\ (SplitMatched(s) /\ HasNeighbour(text, WinningParts(s))) =>
               ~In(text, parts) /\ MergedIn(text, parts)

\* C27 as stated: a 3-character all-uppercase string is retained by the
\* repair of the segmenter, by the final cleaning of extract_questions and
\* by clean_questions; a 2-character string that is not all uppercase is
\* retained by neither of the last two, and the repair merges it into a
\* neighbouring part whenever there is one.
C27_AcronymBoundary ==
    pc = "cleaned" => AcronymRetained(FALSE) /\ ShortNotRetained

\* C27 (amended): the same, except for END: the repair and clean_questions
\* take it for their junk token 'end' and do not return it as an element;
\* the final cleaning of extract_questions keeps it.
C27_AcronymBoundaryButEnd ==
    pc = "cleaned" => AcronymRetained(TRUE) /\ ShortNotRetained

\* 'ab' on the line after 'LAN' was merged into 'LAN ab', which still holds
\* the acronym, and was dropped as a label and as an answer
C27_Witness ==
    /\ pc = "cleaned"
    /\ text = T_ab
    /\ s = OnLines(T_LAN, T_ab, <<>>)
    /\ parts = <<T_LAN \o <<" ">> \o T_ab>>
    /\ questions[1].answers = <<T_WAN>>
    /\ cleaned[1].answers = <<T_WAN>>

\* the loop is left for the writing of the file only once the current URL
\* was visited, the page has no 'next' form or the POST failed, and it is
\* left as soon as the current URL was visited
StopsWhenItMust ==
    /\ (pc = "loop" /\ pc' = "write") =>
           (current \in visited \/ site[current] = NoNext \/ (~failed /\ failed'))
    /\ (pc = "loop" /\ current \in visited) => pc' = "write"

\* C28: in the 'next' navigation every page URL is extracted at most once,
\* the loop stops when the current URL was visited, the page has no 'next'
\* form or the POST fails, and over the finitely many page URLs the loop
\* ends and download_quiz goes on to write the file and returns
C28_NavigationTerminates ==
    /\ [](NoDuplicates(fetched))
    /\ [][StopsWhenItMust]_vars
    /\ (pc = "loop") ~> (pc = "write" \/ pc = "failed")
    /\ <>(pc \in {"saved", "failed"})

\* a site whose 'next' forms lead in a circle: every page was extracted
\* once, the loop stopped at the page seen before, and the file was written
C28_Witness ==
    /\ pc = "saved"
    /\ site = [u \in PageUrls |-> (u + 1) % (MaxPageUrl + 1)]
    /\ fetched = [i \in 1..(MaxPageUrl + 1) |-> i - 1]
    /\ current = 0
    /\ returned = <<"path">>

\* the number of calls of download_quiz that returned a path
RECURSIVE Paths(_)
Paths(list) ==
    IF list = <<>> THEN 0
    ELSE (IF Head(list) = "path" THEN 1 ELSE 0) + Paths(Tail(list))

\* main goes through every link and its count is the number of paths
AllLinksCounted ==
    /\ Len(returned) <= quiz_links
    /\ pc \in {"main", "done"} => saved = Paths(returned)
    /\ pc = "done" => Len(returned) = quiz_links

\* C29 as stated: whatever fails while a quiz is fetched, parsed or written,
\* download_quiz returns None; main goes on with the remaining links and its
\* saved count is the number of links a path was returned for.
C29_AnyFailureReturnsNone ==
    /\ AllLinksCounted
    /\ (pc = "returned" /\ quiz.raised # {}) => returned[Len(returned)] = "None"

\* C29 (amended): the same, except for a failed POST of a 'next' form, which
\* only ends the navigation: the pages read so far are written and the path
\* is returned.
C29_FailureReturnsNoneButNext ==
    /\ AllLinksCounted
    /\ pc = "returned" =>
          (returned[Len(returned)] = "None"
              <=> (quiz.closed \/ quiz.raised \ {"next"} # {}))

\* two links: for the first the POST of a 'next' form failed and the path
\* was returned, for the second the writing failed and main is done with
\* one quiz saved
C29_Witness ==
    /\ pc = "done"
    /\ quiz_links = 2
    /\ returned = <<"path", "None">>
    /\ quiz.raised = {"write"}
    /\ saved = 1

\* C30: when the quiz is not saved yet, is not closed, and its page has no
\* link to the review of an attempt but has a POST form for attempt.php,
\* download_quiz of quizzes.py and of download_moodle_resources.py starts an
\* attempt, writes its questions and returns the path of the file, not None
\* (no request and no writing failing)
C30_NewAttemptStarted ==
    ( /\ pc = "returned"
      /\ ~quiz.exists /\ ~quiz.closed
      /\ quiz.review_href = <<>>
      /\ quiz.form_action = T_AttemptAction
      /\ ~failed )
    => (quiz.posted /\ returned = <<"path">>)

====
